---------------------------- MODULE Spec2Model ----------------------------
(***************************************************************************)
(* Verification model of the semantic front end: the lowering engine of    *)
(* crates/hir/src/body/lower.rs (Ctx, its macro frame stack, the four      *)
(* arenas of a Body and the BodySourceMap) and the query database of       *)
(* crates/base_db/src/lib.rs.                                              *)
(*                                                                         *)
(* Lowering is a recursive descent in the source.  Here the recursion is   *)
(* made explicit: `work` holds the pending calls and continuations (the    *)
(* Rust call stack), `vals` the values the finished calls returned.        *)
(***************************************************************************)
EXTENDS Integers, Sequences, FiniteSets, TLC

(***************************************************************************)
(* Bounds of the model.                                                    *)
(***************************************************************************)
\* Length of Ctx.macro_stack (sentinel included) at which the unbounded
\* recursion of the lowering functions is taken to exhaust the call stack.
MaxFrames == 6

(***************************************************************************)
(* The syntax the parser hands over.  Node ids play the role of AstPtr; 0   *)
(* is an absent (None) child.  `head` is the single optional child of a     *)
(* node (callee, parenthesised expression, scrutinee, clause pattern),      *)
(* `kids` its list of children (tuple elements, call or macro arguments,    *)
(* clause arguments, case arms), `body` a clause body.  A character holds   *)
(* its code point in `val`, a string its code points in `chars`, a unary    *)
(* operation its operator in `name`.  A binary has its segments as kids; a  *)
(* segment (binseg) has its element as head, its size expression (if any)   *)
(* as kids and its bit types as body, each a name or a `unit` node whose    *)
(* head is the unit's value.  A map has its fields as kids; a field its     *)
(* operator in `name` and <<key, value>> as kids.  A list has its elements  *)
(* as kids; a pipe element (Lhs | Rhs) has <<lhs, rhs>> as kids.            *)
(***************************************************************************)
AstPool ==
  <<
     [file |-> "h.hrl", kind |-> "var", name |-> "Y", val |-> 0, chars |-> <<>>, head |-> 0, kids |-> <<>>, body |-> <<>>, hasargs |-> FALSE],  \* 1: Y
     [file |-> "h.hrl", kind |-> "var", name |-> "X", val |-> 0, chars |-> <<>>, head |-> 0, kids |-> <<>>, body |-> <<>>, hasargs |-> FALSE],  \* 2: X
     [file |-> "h.hrl", kind |-> "tuple", name |-> "", val |-> 0, chars |-> <<>>, head |-> 0, kids |-> <<1, 2>>, body |-> <<>>, hasargs |-> FALSE],  \* 3: {Y,X}
     [file |-> "h.hrl", kind |-> "var", name |-> "X", val |-> 0, chars |-> <<>>, head |-> 0, kids |-> <<>>, body |-> <<>>, hasargs |-> FALSE],  \* 4: X
     [file |-> "h.hrl", kind |-> "var", name |-> "X", val |-> 0, chars |-> <<>>, head |-> 0, kids |-> <<>>, body |-> <<>>, hasargs |-> FALSE],  \* 5: X
     [file |-> "h.hrl", kind |-> "macro", name |-> "ID", val |-> 0, chars |-> <<>>, head |-> 0, kids |-> <<5>>, body |-> <<>>, hasargs |-> TRUE],  \* 6: ?ID(X)
     [file |-> "h.hrl", kind |-> "var", name |-> "X", val |-> 0, chars |-> <<>>, head |-> 0, kids |-> <<>>, body |-> <<>>, hasargs |-> FALSE],  \* 7: X
     [file |-> "h.hrl", kind |-> "tuple", name |-> "", val |-> 0, chars |-> <<>>, head |-> 0, kids |-> <<6, 7>>, body |-> <<>>, hasargs |-> FALSE],  \* 8: {?ID(X),X}
     [file |-> "h.hrl", kind |-> "macro", name |-> "N", val |-> 0, chars |-> <<>>, head |-> 0, kids |-> <<>>, body |-> <<>>, hasargs |-> FALSE],  \* 9: ?N
     [file |-> "h.hrl", kind |-> "atom", name |-> "m", val |-> 0, chars |-> <<>>, head |-> 0, kids |-> <<>>, body |-> <<>>, hasargs |-> FALSE],  \* 10: m
     [file |-> "h.hrl", kind |-> "tuple", name |-> "", val |-> 0, chars |-> <<>>, head |-> 0, kids |-> <<9, 10>>, body |-> <<>>, hasargs |-> FALSE],  \* 11: {?N,m}
     [file |-> "h.hrl", kind |-> "atom", name |-> "foo", val |-> 0, chars |-> <<>>, head |-> 0, kids |-> <<>>, body |-> <<>>, hasargs |-> FALSE],  \* 12: foo
     [file |-> "h.hrl", kind |-> "macro", name |-> "G", val |-> 0, chars |-> <<>>, head |-> 0, kids |-> <<>>, body |-> <<>>, hasargs |-> FALSE],  \* 13: ?G
     [file |-> "h.hrl", kind |-> "atom", name |-> "b", val |-> 0, chars |-> <<>>, head |-> 0, kids |-> <<>>, body |-> <<>>, hasargs |-> FALSE],  \* 14: b
     [file |-> "h.hrl", kind |-> "int", name |-> "", val |-> 2, chars |-> <<>>, head |-> 0, kids |-> <<>>, body |-> <<>>, hasargs |-> FALSE],  \* 15: 2
     [file |-> "h.hrl", kind |-> "clause", name |-> "", val |-> 0, chars |-> <<>>, head |-> 0, kids |-> <<14>>, body |-> <<15>>, hasargs |-> FALSE],  \* 16: f(b) -> 2
     [file |-> "h.hrl", kind |-> "macro", name |-> "CL2", val |-> 0, chars |-> <<>>, head |-> 0, kids |-> <<>>, body |-> <<>>, hasargs |-> FALSE],  \* 17: ?CL2
     [file |-> "h.hrl", kind |-> "atom", name |-> "d", val |-> 0, chars |-> <<>>, head |-> 0, kids |-> <<>>, body |-> <<>>, hasargs |-> FALSE],  \* 18: d
     [file |-> "h.hrl", kind |-> "macro", name |-> "LINE", val |-> 0, chars |-> <<>>, head |-> 0, kids |-> <<>>, body |-> <<>>, hasargs |-> FALSE],  \* 19: ?LINE
     [file |-> "h.hrl", kind |-> "clause", name |-> "", val |-> 0, chars |-> <<>>, head |-> 0, kids |-> <<18>>, body |-> <<19>>, hasargs |-> FALSE],  \* 20: f(d) -> ?LINE
     [file |-> "h.hrl", kind |-> "atom", name |-> "b", val |-> 0, chars |-> <<>>, head |-> 0, kids |-> <<>>, body |-> <<>>, hasargs |-> FALSE],  \* 21: b
     [file |-> "h.hrl", kind |-> "int", name |-> "", val |-> 2, chars |-> <<>>, head |-> 0, kids |-> <<>>, body |-> <<>>, hasargs |-> FALSE],  \* 22: 2
     [file |-> "h.hrl", kind |-> "crclause", name |-> "", val |-> 0, chars |-> <<>>, head |-> 21, kids |-> <<>>, body |-> <<22>>, hasargs |-> FALSE],  \* 23: b -> 2
     [file |-> "h.hrl", kind |-> "macro", name |-> "ARMS", val |-> 0, chars |-> <<>>, head |-> 0, kids |-> <<>>, body |-> <<>>, hasargs |-> FALSE],  \* 24: ?ARMS
     [file |-> "h.hrl", kind |-> "var", name |-> "Z", val |-> 0, chars |-> <<>>, head |-> 0, kids |-> <<>>, body |-> <<>>, hasargs |-> FALSE],  \* 25: Z
     [file |-> "h.hrl", kind |-> "int", name |-> "", val |-> 3, chars |-> <<>>, head |-> 0, kids |-> <<>>, body |-> <<>>, hasargs |-> FALSE],  \* 26: 3
     [file |-> "h.hrl", kind |-> "crclause", name |-> "", val |-> 0, chars |-> <<>>, head |-> 25, kids |-> <<>>, body |-> <<26>>, hasargs |-> FALSE],  \* 27: Z -> 3
     [file |-> "m.erl", kind |-> "atom", name |-> "ok", val |-> 0, chars |-> <<>>, head |-> 0, kids |-> <<>>, body |-> <<>>, hasargs |-> FALSE],  \* 28: ok
     [file |-> "h.hrl", kind |-> "macro", name |-> "A", val |-> 0, chars |-> <<>>, head |-> 0, kids |-> <<>>, body |-> <<>>, hasargs |-> FALSE],  \* 29: ?A
     [file |-> "h.hrl", kind |-> "macro", name |-> "B", val |-> 0, chars |-> <<>>, head |-> 0, kids |-> <<>>, body |-> <<>>, hasargs |-> FALSE],  \* 30: ?B
     [file |-> "h.hrl", kind |-> "macro", name |-> "A", val |-> 0, chars |-> <<>>, head |-> 0, kids |-> <<>>, body |-> <<>>, hasargs |-> FALSE],  \* 31: ?A
     [file |-> "h.hrl", kind |-> "tuple", name |-> "", val |-> 0, chars |-> <<>>, head |-> 0, kids |-> <<31>>, body |-> <<>>, hasargs |-> FALSE],  \* 32: {?A}
     [file |-> "h.hrl", kind |-> "int", name |-> "", val |-> 1, chars |-> <<>>, head |-> 0, kids |-> <<>>, body |-> <<>>, hasargs |-> FALSE],  \* 33: 1
     [file |-> "h.hrl", kind |-> "macro", name |-> "A", val |-> 0, chars |-> <<>>, head |-> 0, kids |-> <<33>>, body |-> <<>>, hasargs |-> TRUE],  \* 34: ?A(1)
     [file |-> "h.hrl", kind |-> "int", name |-> "", val |-> 1, chars |-> <<>>, head |-> 0, kids |-> <<>>, body |-> <<>>, hasargs |-> FALSE],  \* 35: 1
     [file |-> "h.hrl", kind |-> "macro", name |-> "A", val |-> 0, chars |-> <<>>, head |-> 0, kids |-> <<35>>, body |-> <<>>, hasargs |-> TRUE],  \* 36: ?A(1)
     [file |-> "h.hrl", kind |-> "tuple", name |-> "", val |-> 0, chars |-> <<>>, head |-> 0, kids |-> <<36>>, body |-> <<>>, hasargs |-> FALSE],  \* 37: {?A(1)}
     [file |-> "h.hrl", kind |-> "atom", name |-> "a", val |-> 0, chars |-> <<>>, head |-> 0, kids |-> <<>>, body |-> <<>>, hasargs |-> FALSE],  \* 38: a
     [file |-> "m.erl", kind |-> "var", name |-> "X", val |-> 0, chars |-> <<>>, head |-> 0, kids |-> <<>>, body |-> <<>>, hasargs |-> FALSE],  \* 39: X
     [file |-> "m.erl", kind |-> "atom", name |-> "a", val |-> 0, chars |-> <<>>, head |-> 0, kids |-> <<>>, body |-> <<>>, hasargs |-> FALSE],  \* 40: a
     [file |-> "m.erl", kind |-> "tuple", name |-> "", val |-> 0, chars |-> <<>>, head |-> 0, kids |-> <<39, 40>>, body |-> <<>>, hasargs |-> FALSE],  \* 41: {X,a}
     [file |-> "m.erl", kind |-> "var", name |-> "X", val |-> 0, chars |-> <<>>, head |-> 0, kids |-> <<>>, body |-> <<>>, hasargs |-> FALSE],  \* 42: X
     [file |-> "m.erl", kind |-> "clause", name |-> "", val |-> 0, chars |-> <<>>, head |-> 0, kids |-> <<42>>, body |-> <<41>>, hasargs |-> FALSE],  \* 43: f(X) -> {X,a}
     [file |-> "m.erl", kind |-> "atom", name |-> "foo", val |-> 0, chars |-> <<>>, head |-> 0, kids |-> <<>>, body |-> <<>>, hasargs |-> FALSE],  \* 44: foo
     [file |-> "m.erl", kind |-> "call", name |-> "", val |-> 0, chars |-> <<>>, head |-> 44, kids |-> <<>>, body |-> <<>>, hasargs |-> FALSE],  \* 45: foo()
     [file |-> "m.erl", kind |-> "atom", name |-> "bar", val |-> 0, chars |-> <<>>, head |-> 0, kids |-> <<>>, body |-> <<>>, hasargs |-> FALSE],  \* 46: bar
     [file |-> "m.erl", kind |-> "call", name |-> "", val |-> 0, chars |-> <<>>, head |-> 46, kids |-> <<>>, body |-> <<>>, hasargs |-> FALSE],  \* 47: bar()
     [file |-> "m.erl", kind |-> "macro", name |-> "PAIR", val |-> 0, chars |-> <<>>, head |-> 0, kids |-> <<45, 47>>, body |-> <<>>, hasargs |-> TRUE],  \* 48: ?PAIR(foo(),bar())
     [file |-> "m.erl", kind |-> "clause", name |-> "", val |-> 0, chars |-> <<>>, head |-> 0, kids |-> <<>>, body |-> <<48>>, hasargs |-> FALSE],  \* 49: f() -> ?PAIR(foo(),bar())
     [file |-> "m.erl", kind |-> "macro", name |-> "A", val |-> 0, chars |-> <<>>, head |-> 0, kids |-> <<>>, body |-> <<>>, hasargs |-> FALSE],  \* 50: ?A
     [file |-> "m.erl", kind |-> "clause", name |-> "", val |-> 0, chars |-> <<>>, head |-> 0, kids |-> <<>>, body |-> <<50>>, hasargs |-> FALSE],  \* 51: f() -> ?A
     [file |-> "m.erl", kind |-> "atom", name |-> "b", val |-> 0, chars |-> <<>>, head |-> 0, kids |-> <<>>, body |-> <<>>, hasargs |-> FALSE],  \* 52: b
     [file |-> "m.erl", kind |-> "macro", name |-> "ID", val |-> 0, chars |-> <<>>, head |-> 0, kids |-> <<52>>, body |-> <<>>, hasargs |-> TRUE],  \* 53: ?ID(b)
     [file |-> "m.erl", kind |-> "macro", name |-> "WRAP", val |-> 0, chars |-> <<>>, head |-> 0, kids |-> <<53>>, body |-> <<>>, hasargs |-> TRUE],  \* 54: ?WRAP(?ID(b))
     [file |-> "m.erl", kind |-> "clause", name |-> "", val |-> 0, chars |-> <<>>, head |-> 0, kids |-> <<>>, body |-> <<54>>, hasargs |-> FALSE],  \* 55: f() -> ?WRAP(?ID(b))
     [file |-> "m.erl", kind |-> "macro", name |-> "M", val |-> 0, chars |-> <<>>, head |-> 0, kids |-> <<>>, body |-> <<>>, hasargs |-> FALSE],  \* 56: ?M
     [file |-> "m.erl", kind |-> "clause", name |-> "", val |-> 0, chars |-> <<>>, head |-> 0, kids |-> <<>>, body |-> <<56>>, hasargs |-> FALSE],  \* 57: f() -> ?M
     [file |-> "m.erl", kind |-> "int", name |-> "", val |-> 1, chars |-> <<>>, head |-> 0, kids |-> <<>>, body |-> <<>>, hasargs |-> FALSE],  \* 58: 1
     [file |-> "m.erl", kind |-> "macro", name |-> "G", val |-> 0, chars |-> <<>>, head |-> 0, kids |-> <<58>>, body |-> <<>>, hasargs |-> TRUE],  \* 59: ?G(1)
     [file |-> "m.erl", kind |-> "clause", name |-> "", val |-> 0, chars |-> <<>>, head |-> 0, kids |-> <<>>, body |-> <<59>>, hasargs |-> FALSE],  \* 60: f() -> ?G(1)
     [file |-> "m.erl", kind |-> "int", name |-> "", val |-> 1, chars |-> <<>>, head |-> 0, kids |-> <<>>, body |-> <<>>, hasargs |-> FALSE],  \* 61: 1
     [file |-> "m.erl", kind |-> "macro", name |-> "G2", val |-> 0, chars |-> <<>>, head |-> 0, kids |-> <<61>>, body |-> <<>>, hasargs |-> TRUE],  \* 62: ?G2(1)
     [file |-> "m.erl", kind |-> "clause", name |-> "", val |-> 0, chars |-> <<>>, head |-> 0, kids |-> <<>>, body |-> <<62>>, hasargs |-> FALSE],  \* 63: f() -> ?G2(1)
     [file |-> "m.erl", kind |-> "atom", name |-> "u", val |-> 0, chars |-> <<>>, head |-> 0, kids |-> <<>>, body |-> <<>>, hasargs |-> FALSE],  \* 64: u
     [file |-> "m.erl", kind |-> "macro", name |-> "UNDEF", val |-> 0, chars |-> <<>>, head |-> 0, kids |-> <<64>>, body |-> <<>>, hasargs |-> TRUE],  \* 65: ?UNDEF(u)
     [file |-> "m.erl", kind |-> "clause", name |-> "", val |-> 0, chars |-> <<>>, head |-> 0, kids |-> <<>>, body |-> <<65>>, hasargs |-> FALSE],  \* 66: f() -> ?UNDEF(u)
     [file |-> "m.erl", kind |-> "macro", name |-> "UNDEF", val |-> 0, chars |-> <<>>, head |-> 0, kids |-> <<>>, body |-> <<>>, hasargs |-> FALSE],  \* 67: ?UNDEF
     [file |-> "m.erl", kind |-> "clause", name |-> "", val |-> 0, chars |-> <<>>, head |-> 0, kids |-> <<>>, body |-> <<67>>, hasargs |-> FALSE],  \* 68: f() -> ?UNDEF
     [file |-> "m.erl", kind |-> "int", name |-> "", val |-> 1, chars |-> <<>>, head |-> 0, kids |-> <<>>, body |-> <<>>, hasargs |-> FALSE],  \* 69: 1
     [file |-> "m.erl", kind |-> "atom", name |-> "a", val |-> 0, chars |-> <<>>, head |-> 0, kids |-> <<>>, body |-> <<>>, hasargs |-> FALSE],  \* 70: a
     [file |-> "m.erl", kind |-> "clause", name |-> "", val |-> 0, chars |-> <<>>, head |-> 0, kids |-> <<70>>, body |-> <<69>>, hasargs |-> FALSE],  \* 71: f(a) -> 1
     [file |-> "m.erl", kind |-> "macro", name |-> "CL", val |-> 0, chars |-> <<>>, head |-> 0, kids |-> <<>>, body |-> <<>>, hasargs |-> FALSE],  \* 72: ?CL
     [file |-> "m.erl", kind |-> "int", name |-> "", val |-> 3, chars |-> <<>>, head |-> 0, kids |-> <<>>, body |-> <<>>, hasargs |-> FALSE],  \* 73: 3
     [file |-> "m.erl", kind |-> "atom", name |-> "c", val |-> 0, chars |-> <<>>, head |-> 0, kids |-> <<>>, body |-> <<>>, hasargs |-> FALSE],  \* 74: c
     [file |-> "m.erl", kind |-> "clause", name |-> "", val |-> 0, chars |-> <<>>, head |-> 0, kids |-> <<74>>, body |-> <<73>>, hasargs |-> FALSE],  \* 75: f(c) -> 3
     [file |-> "m.erl", kind |-> "macro", name |-> "G", val |-> 0, chars |-> <<>>, head |-> 0, kids |-> <<>>, body |-> <<>>, hasargs |-> FALSE],  \* 76: ?G
     [file |-> "m.erl", kind |-> "int", name |-> "", val |-> 1, chars |-> <<>>, head |-> 0, kids |-> <<>>, body |-> <<>>, hasargs |-> FALSE],  \* 77: 1
     [file |-> "m.erl", kind |-> "macro", name |-> "G", val |-> 0, chars |-> <<>>, head |-> 0, kids |-> <<77>>, body |-> <<>>, hasargs |-> TRUE],  \* 78: ?G(1)
     [file |-> "m.erl", kind |-> "macro", name |-> "UNDEF", val |-> 0, chars |-> <<>>, head |-> 0, kids |-> <<>>, body |-> <<>>, hasargs |-> FALSE],  \* 79: ?UNDEF
     [file |-> "m.erl", kind |-> "macro", name |-> "LINE", val |-> 0, chars |-> <<>>, head |-> 0, kids |-> <<>>, body |-> <<>>, hasargs |-> FALSE],  \* 80: ?LINE
     [file |-> "m.erl", kind |-> "macro", name |-> "ARMS", val |-> 0, chars |-> <<>>, head |-> 0, kids |-> <<>>, body |-> <<>>, hasargs |-> FALSE],  \* 81: ?ARMS
     [file |-> "m.erl", kind |-> "macro", name |-> "NOREPL", val |-> 0, chars |-> <<>>, head |-> 0, kids |-> <<>>, body |-> <<>>, hasargs |-> FALSE],  \* 82: ?NOREPL
     [file |-> "m.erl", kind |-> "int", name |-> "", val |-> 1, chars |-> <<>>, head |-> 0, kids |-> <<>>, body |-> <<>>, hasargs |-> FALSE],  \* 83: 1
     [file |-> "m.erl", kind |-> "macro", name |-> "CL", val |-> 0, chars |-> <<>>, head |-> 0, kids |-> <<83>>, body |-> <<>>, hasargs |-> TRUE],  \* 84: ?CL(1)
     [file |-> "m.erl", kind |-> "var", name |-> "X", val |-> 0, chars |-> <<>>, head |-> 0, kids |-> <<>>, body |-> <<>>, hasargs |-> FALSE],  \* 85: X
     [file |-> "m.erl", kind |-> "atom", name |-> "a", val |-> 0, chars |-> <<>>, head |-> 0, kids |-> <<>>, body |-> <<>>, hasargs |-> FALSE],  \* 86: a
     [file |-> "m.erl", kind |-> "int", name |-> "", val |-> 1, chars |-> <<>>, head |-> 0, kids |-> <<>>, body |-> <<>>, hasargs |-> FALSE],  \* 87: 1
     [file |-> "m.erl", kind |-> "crclause", name |-> "", val |-> 0, chars |-> <<>>, head |-> 86, kids |-> <<>>, body |-> <<87>>, hasargs |-> FALSE],  \* 88: a -> 1
     [file |-> "m.erl", kind |-> "macro", name |-> "ARMS", val |-> 0, chars |-> <<>>, head |-> 0, kids |-> <<>>, body |-> <<>>, hasargs |-> FALSE],  \* 89: ?ARMS
     [file |-> "m.erl", kind |-> "macro", name |-> "CL", val |-> 0, chars |-> <<>>, head |-> 0, kids |-> <<>>, body |-> <<>>, hasargs |-> FALSE],  \* 90: ?CL
     [file |-> "m.erl", kind |-> "int", name |-> "", val |-> 1, chars |-> <<>>, head |-> 0, kids |-> <<>>, body |-> <<>>, hasargs |-> FALSE],  \* 91: 1
     [file |-> "m.erl", kind |-> "macro", name |-> "G", val |-> 0, chars |-> <<>>, head |-> 0, kids |-> <<91>>, body |-> <<>>, hasargs |-> TRUE],  \* 92: ?G(1)
     [file |-> "m.erl", kind |-> "int", name |-> "", val |-> 1, chars |-> <<>>, head |-> 0, kids |-> <<>>, body |-> <<>>, hasargs |-> FALSE],  \* 93: 1
     [file |-> "m.erl", kind |-> "macro", name |-> "ARMS", val |-> 0, chars |-> <<>>, head |-> 0, kids |-> <<93>>, body |-> <<>>, hasargs |-> TRUE],  \* 94: ?ARMS(1)
     [file |-> "m.erl", kind |-> "case", name |-> "", val |-> 0, chars |-> <<>>, head |-> 85, kids |-> <<88, 89, 90, 92, 94>>, body |-> <<>>, hasargs |-> FALSE],  \* 95: case X of a -> 1; ?ARMS; ?CL; ?G(1); ?ARMS(1) end
     [file |-> "m.erl", kind |-> "var", name |-> "X", val |-> 0, chars |-> <<>>, head |-> 0, kids |-> <<>>, body |-> <<>>, hasargs |-> FALSE],  \* 96: X
     [file |-> "m.erl", kind |-> "clause", name |-> "", val |-> 0, chars |-> <<>>, head |-> 0, kids |-> <<96>>, body |-> <<95>>, hasargs |-> FALSE],  \* 97: f(X) -> case X of a -> 1; ?ARMS; ?CL; ?G(1); ?ARMS(1) end
     [file |-> "m.erl", kind |-> "atom", name |-> "ok", val |-> 0, chars |-> <<>>, head |-> 0, kids |-> <<>>, body |-> <<>>, hasargs |-> FALSE],  \* 98: ok
     [file |-> "m.erl", kind |-> "atom", name |-> "a", val |-> 0, chars |-> <<>>, head |-> 0, kids |-> <<>>, body |-> <<>>, hasargs |-> FALSE],  \* 99: a
     [file |-> "m.erl", kind |-> "var", name |-> "B", val |-> 0, chars |-> <<>>, head |-> 0, kids |-> <<>>, body |-> <<>>, hasargs |-> FALSE],  \* 100: B
     [file |-> "m.erl", kind |-> "macro", name |-> "PAIR", val |-> 0, chars |-> <<>>, head |-> 0, kids |-> <<99, 100>>, body |-> <<>>, hasargs |-> TRUE],  \* 101: ?PAIR(a,B)
     [file |-> "m.erl", kind |-> "clause", name |-> "", val |-> 0, chars |-> <<>>, head |-> 0, kids |-> <<101>>, body |-> <<98>>, hasargs |-> FALSE],  \* 102: f(?PAIR(a,B)) -> ok
     [file |-> "m.erl", kind |-> "atom", name |-> "ok", val |-> 0, chars |-> <<>>, head |-> 0, kids |-> <<>>, body |-> <<>>, hasargs |-> FALSE],  \* 103: ok
     [file |-> "m.erl", kind |-> "int", name |-> "", val |-> 1, chars |-> <<>>, head |-> 0, kids |-> <<>>, body |-> <<>>, hasargs |-> FALSE],  \* 104: 1
     [file |-> "m.erl", kind |-> "macro", name |-> "G", val |-> 0, chars |-> <<>>, head |-> 0, kids |-> <<104>>, body |-> <<>>, hasargs |-> TRUE],  \* 105: ?G(1)
     [file |-> "m.erl", kind |-> "macro", name |-> "MODULE", val |-> 0, chars |-> <<>>, head |-> 0, kids |-> <<>>, body |-> <<>>, hasargs |-> FALSE],  \* 106: ?MODULE
     [file |-> "m.erl", kind |-> "macro", name |-> "A", val |-> 0, chars |-> <<>>, head |-> 0, kids |-> <<>>, body |-> <<>>, hasargs |-> FALSE],  \* 107: ?A
     [file |-> "m.erl", kind |-> "clause", name |-> "", val |-> 0, chars |-> <<>>, head |-> 0, kids |-> <<105, 106, 107>>, body |-> <<103>>, hasargs |-> FALSE],  \* 108: f(?G(1),?MODULE,?A) -> ok
     [file |-> "m.erl", kind |-> "atom", name |-> "a", val |-> 0, chars |-> <<>>, head |-> 0, kids |-> <<>>, body |-> <<>>, hasargs |-> FALSE],  \* 109: a
     [file |-> "m.erl", kind |-> "paren", name |-> "", val |-> 0, chars |-> <<>>, head |-> 109, kids |-> <<>>, body |-> <<>>, hasargs |-> FALSE],  \* 110: (a)
     [file |-> "m.erl", kind |-> "paren", name |-> "", val |-> 0, chars |-> <<>>, head |-> 0, kids |-> <<>>, body |-> <<>>, hasargs |-> FALSE],  \* 111: ()
     [file |-> "m.erl", kind |-> "var", name |-> "P", val |-> 0, chars |-> <<>>, head |-> 0, kids |-> <<>>, body |-> <<>>, hasargs |-> FALSE],  \* 112: P
     [file |-> "m.erl", kind |-> "paren", name |-> "", val |-> 0, chars |-> <<>>, head |-> 112, kids |-> <<>>, body |-> <<>>, hasargs |-> FALSE],  \* 113: (P)
     [file |-> "m.erl", kind |-> "atom", name |-> "c", val |-> 0, chars |-> <<>>, head |-> 0, kids |-> <<>>, body |-> <<>>, hasargs |-> FALSE],  \* 114: c
     [file |-> "m.erl", kind |-> "catch", name |-> "", val |-> 0, chars |-> <<>>, head |-> 114, kids |-> <<>>, body |-> <<>>, hasargs |-> FALSE],  \* 115: catch c
     [file |-> "m.erl", kind |-> "clause", name |-> "", val |-> 0, chars |-> <<>>, head |-> 0, kids |-> <<113, 115>>, body |-> <<110, 111>>, hasargs |-> FALSE],  \* 116: f((P),catch c) -> (a),()
     [file |-> "m.erl", kind |-> "int", name |-> "", val |-> 1, chars |-> <<>>, head |-> 0, kids |-> <<>>, body |-> <<>>, hasargs |-> FALSE],  \* 117: 1
     [file |-> "m.erl", kind |-> "macro", name |-> "MODULE", val |-> 0, chars |-> <<>>, head |-> 0, kids |-> <<117>>, body |-> <<>>, hasargs |-> TRUE],  \* 118: ?MODULE(1)
     [file |-> "m.erl", kind |-> "macro", name |-> "FUNCTION_NAME", val |-> 0, chars |-> <<>>, head |-> 0, kids |-> <<>>, body |-> <<>>, hasargs |-> FALSE],  \* 119: ?FUNCTION_NAME
     [file |-> "m.erl", kind |-> "macro", name |-> "NOREPL", val |-> 0, chars |-> <<>>, head |-> 0, kids |-> <<>>, body |-> <<>>, hasargs |-> FALSE],  \* 120: ?NOREPL
     [file |-> "m.erl", kind |-> "clause", name |-> "", val |-> 0, chars |-> <<>>, head |-> 0, kids |-> <<>>, body |-> <<118, 119, 120>>, hasargs |-> FALSE],  \* 121: f() -> ?MODULE(1),?FUNCTION_NAME,?NOREPL
     [file |-> "m.erl", kind |-> "macro", name |-> "G", val |-> 0, chars |-> <<>>, head |-> 0, kids |-> <<>>, body |-> <<>>, hasargs |-> FALSE],  \* 122: ?G
     [file |-> "m.erl", kind |-> "macro", name |-> "A", val |-> 0, chars |-> <<>>, head |-> 0, kids |-> <<>>, body |-> <<>>, hasargs |-> FALSE],  \* 123: ?A
     [file |-> "m.erl", kind |-> "call", name |-> "", val |-> 0, chars |-> <<>>, head |-> 122, kids |-> <<123>>, body |-> <<>>, hasargs |-> FALSE],  \* 124: ?G(?A)
     [file |-> "m.erl", kind |-> "atom", name |-> "u", val |-> 0, chars |-> <<>>, head |-> 0, kids |-> <<>>, body |-> <<>>, hasargs |-> FALSE],  \* 125: u
     [file |-> "m.erl", kind |-> "macro", name |-> "UNDEF", val |-> 0, chars |-> <<>>, head |-> 0, kids |-> <<125>>, body |-> <<>>, hasargs |-> TRUE],  \* 126: ?UNDEF(u)
     [file |-> "m.erl", kind |-> "call", name |-> "", val |-> 0, chars |-> <<>>, head |-> 126, kids |-> <<>>, body |-> <<>>, hasargs |-> FALSE],  \* 127: ?UNDEF(u)()
     [file |-> "m.erl", kind |-> "int", name |-> "", val |-> 1, chars |-> <<>>, head |-> 0, kids |-> <<>>, body |-> <<>>, hasargs |-> FALSE],  \* 128: 1
     [file |-> "m.erl", kind |-> "macro", name |-> "G", val |-> 0, chars |-> <<>>, head |-> 0, kids |-> <<128>>, body |-> <<>>, hasargs |-> TRUE],  \* 129: ?G(1)
     [file |-> "m.erl", kind |-> "paren", name |-> "", val |-> 0, chars |-> <<>>, head |-> 129, kids |-> <<>>, body |-> <<>>, hasargs |-> FALSE],  \* 130: (?G(1))
     [file |-> "m.erl", kind |-> "call", name |-> "", val |-> 0, chars |-> <<>>, head |-> 130, kids |-> <<>>, body |-> <<>>, hasargs |-> FALSE],  \* 131: (?G(1))()
     [file |-> "m.erl", kind |-> "clause", name |-> "", val |-> 0, chars |-> <<>>, head |-> 0, kids |-> <<>>, body |-> <<124, 127, 131>>, hasargs |-> FALSE],  \* 132: f() -> ?G(?A),?UNDEF(u)(),(?G(1))()
     [file |-> "m.erl", kind |-> "macro", name |-> "ID", val |-> 0, chars |-> <<>>, head |-> 0, kids |-> <<0>>, body |-> <<>>, hasargs |-> TRUE],  \* 133: ?ID(_absent_)
     [file |-> "m.erl", kind |-> "catch", name |-> "", val |-> 0, chars |-> <<>>, head |-> 0, kids |-> <<>>, body |-> <<>>, hasargs |-> FALSE],  \* 134: catch _absent_
     [file |-> "m.erl", kind |-> "clause", name |-> "", val |-> 0, chars |-> <<>>, head |-> 0, kids |-> <<>>, body |-> <<133, 134>>, hasargs |-> FALSE],  \* 135: f() -> ?ID(_absent_),catch _absent_
     [file |-> "m.erl", kind |-> "macro", name |-> "LINE", val |-> 0, chars |-> <<>>, head |-> 0, kids |-> <<>>, body |-> <<>>, hasargs |-> FALSE],  \* 136: ?LINE
     [file |-> "m.erl", kind |-> "macro", name |-> "FUNCTION_NAME", val |-> 0, chars |-> <<>>, head |-> 0, kids |-> <<>>, body |-> <<>>, hasargs |-> FALSE],  \* 137: ?FUNCTION_NAME
     [file |-> "m.erl", kind |-> "tuple", name |-> "", val |-> 0, chars |-> <<>>, head |-> 0, kids |-> <<136, 137>>, body |-> <<>>, hasargs |-> FALSE],  \* 138: {?LINE,?FUNCTION_NAME}
     [file |-> "m.erl", kind |-> "int", name |-> "", val |-> 1, chars |-> <<>>, head |-> 0, kids |-> <<>>, body |-> <<>>, hasargs |-> FALSE],  \* 139: 1
     [file |-> "m.erl", kind |-> "macro", name |-> "FUNCTION_NAME", val |-> 0, chars |-> <<>>, head |-> 0, kids |-> <<139>>, body |-> <<>>, hasargs |-> TRUE],  \* 140: ?FUNCTION_NAME(1)
     [file |-> "m.erl", kind |-> "atom", name |-> "a", val |-> 0, chars |-> <<>>, head |-> 0, kids |-> <<>>, body |-> <<>>, hasargs |-> FALSE],  \* 141: a
     [file |-> "m.erl", kind |-> "macro", name |-> "MODULE", val |-> 0, chars |-> <<>>, head |-> 0, kids |-> <<>>, body |-> <<>>, hasargs |-> FALSE],  \* 142: ?MODULE
     [file |-> "m.erl", kind |-> "int", name |-> "", val |-> 7, chars |-> <<>>, head |-> 0, kids |-> <<>>, body |-> <<>>, hasargs |-> FALSE],  \* 143: 7
     [file |-> "m.erl", kind |-> "macro", name |-> "ID", val |-> 0, chars |-> <<>>, head |-> 0, kids |-> <<143>>, body |-> <<>>, hasargs |-> TRUE],  \* 144: ?ID(7)
     [file |-> "m.erl", kind |-> "tuple", name |-> "", val |-> 0, chars |-> <<>>, head |-> 0, kids |-> <<141, 142, 144>>, body |-> <<>>, hasargs |-> FALSE],  \* 145: {a,?MODULE,?ID(7)}
     [file |-> "m.erl", kind |-> "macro", name |-> "A", val |-> 0, chars |-> <<>>, head |-> 0, kids |-> <<>>, body |-> <<>>, hasargs |-> FALSE],  \* 146: ?A
     [file |-> "m.erl", kind |-> "atom", name |-> "a", val |-> 0, chars |-> <<>>, head |-> 0, kids |-> <<>>, body |-> <<>>, hasargs |-> FALSE],  \* 147: a
     [file |-> "m.erl", kind |-> "catch", name |-> "", val |-> 0, chars |-> <<>>, head |-> 147, kids |-> <<>>, body |-> <<>>, hasargs |-> FALSE],  \* 148: catch a
     [file |-> "m.erl", kind |-> "var", name |-> "V", val |-> 0, chars |-> <<>>, head |-> 0, kids |-> <<>>, body |-> <<>>, hasargs |-> FALSE],  \* 149: V
     [file |-> "m.erl", kind |-> "int", name |-> "", val |-> 1, chars |-> <<>>, head |-> 0, kids |-> <<>>, body |-> <<>>, hasargs |-> FALSE],  \* 150: 1
     [file |-> "m.erl", kind |-> "macro", name |-> "G", val |-> 0, chars |-> <<>>, head |-> 0, kids |-> <<150>>, body |-> <<>>, hasargs |-> TRUE],  \* 151: ?G(1)
     [file |-> "m.erl", kind |-> "atom", name |-> "a", val |-> 0, chars |-> <<>>, head |-> 0, kids |-> <<>>, body |-> <<>>, hasargs |-> FALSE],  \* 152: a
     [file |-> "m.erl", kind |-> "case", name |-> "", val |-> 0, chars |-> <<>>, head |-> 152, kids |-> <<>>, body |-> <<>>, hasargs |-> FALSE],  \* 153: case a of  end
     [file |-> "m.erl", kind |-> "tuple", name |-> "", val |-> 0, chars |-> <<>>, head |-> 0, kids |-> <<148, 149, 151, 153>>, body |-> <<>>, hasargs |-> FALSE],  \* 154: {catch a,V,?G(1),case a of  end}
     [file |-> "m.erl", kind |-> "atom", name |-> "a", val |-> 0, chars |-> <<>>, head |-> 0, kids |-> <<>>, body |-> <<>>, hasargs |-> FALSE],  \* 155: a
     [file |-> "m.erl", kind |-> "atom", name |-> "b", val |-> 0, chars |-> <<>>, head |-> 0, kids |-> <<>>, body |-> <<>>, hasargs |-> FALSE],  \* 156: b
     [file |-> "m.erl", kind |-> "macro", name |-> "ID", val |-> 0, chars |-> <<>>, head |-> 0, kids |-> <<156>>, body |-> <<>>, hasargs |-> TRUE],  \* 157: ?ID(b)
     [file |-> "m.erl", kind |-> "var", name |-> "T", val |-> 0, chars |-> <<>>, head |-> 0, kids |-> <<>>, body |-> <<>>, hasargs |-> FALSE],  \* 158: T
     [file |-> "m.erl", kind |-> "tuple", name |-> "", val |-> 0, chars |-> <<>>, head |-> 0, kids |-> <<155, 157, 158>>, body |-> <<>>, hasargs |-> FALSE],  \* 159: {a,?ID(b),T}
     [file |-> "m.erl", kind |-> "atom", name |-> "a", val |-> 0, chars |-> <<>>, head |-> 0, kids |-> <<>>, body |-> <<>>, hasargs |-> FALSE],  \* 160: a
     [file |-> "m.erl", kind |-> "catch", name |-> "", val |-> 0, chars |-> <<>>, head |-> 160, kids |-> <<>>, body |-> <<>>, hasargs |-> FALSE],  \* 161: catch a
     [file |-> "m.erl", kind |-> "paren", name |-> "", val |-> 0, chars |-> <<>>, head |-> 161, kids |-> <<>>, body |-> <<>>, hasargs |-> FALSE],  \* 162: (catch a)
     [file |-> "m.erl", kind |-> "int", name |-> "", val |-> 1, chars |-> <<>>, head |-> 0, kids |-> <<>>, body |-> <<>>, hasargs |-> FALSE],  \* 163: 1
     [file |-> "m.erl", kind |-> "macro", name |-> "G", val |-> 0, chars |-> <<>>, head |-> 0, kids |-> <<163>>, body |-> <<>>, hasargs |-> TRUE],  \* 164: ?G(1)
     [file |-> "m.erl", kind |-> "macro", name |-> "A", val |-> 0, chars |-> <<>>, head |-> 0, kids |-> <<>>, body |-> <<>>, hasargs |-> FALSE],  \* 165: ?A
     [file |-> "m.erl", kind |-> "atom", name |-> "a", val |-> 0, chars |-> <<>>, head |-> 0, kids |-> <<>>, body |-> <<>>, hasargs |-> FALSE],  \* 166: a
     [file |-> "m.erl", kind |-> "case", name |-> "", val |-> 0, chars |-> <<>>, head |-> 166, kids |-> <<>>, body |-> <<>>, hasargs |-> FALSE],  \* 167: case a of  end
     [file |-> "m.erl", kind |-> "tuple", name |-> "", val |-> 0, chars |-> <<>>, head |-> 0, kids |-> <<162, 164, 165, 167>>, body |-> <<>>, hasargs |-> FALSE],  \* 168: {(catch a),?G(1),?A,case a of  end}
     [file |-> "m.erl", kind |-> "atom", name |-> "a", val |-> 0, chars |-> <<>>, head |-> 0, kids |-> <<>>, body |-> <<>>, hasargs |-> FALSE],  \* 169: a
     [file |-> "m.erl", kind |-> "macro", name |-> "M", val |-> 0, chars |-> <<>>, head |-> 0, kids |-> <<>>, body |-> <<>>, hasargs |-> FALSE],  \* 170: ?M
     [file |-> "m.erl", kind |-> "atom", name |-> "b", val |-> 0, chars |-> <<>>, head |-> 0, kids |-> <<>>, body |-> <<>>, hasargs |-> FALSE],  \* 171: b
     [file |-> "m.erl", kind |-> "macro", name |-> "ID", val |-> 0, chars |-> <<>>, head |-> 0, kids |-> <<171>>, body |-> <<>>, hasargs |-> TRUE],  \* 172: ?ID(b)
     [file |-> "m.erl", kind |-> "macro", name |-> "G", val |-> 0, chars |-> <<>>, head |-> 0, kids |-> <<>>, body |-> <<>>, hasargs |-> FALSE],  \* 173: ?G
     [file |-> "m.erl", kind |-> "atom", name |-> "t", val |-> 0, chars |-> <<>>, head |-> 0, kids |-> <<>>, body |-> <<>>, hasargs |-> FALSE],  \* 174: t
     [file |-> "m.erl", kind |-> "call", name |-> "", val |-> 0, chars |-> <<>>, head |-> 173, kids |-> <<174>>, body |-> <<>>, hasargs |-> FALSE],  \* 175: ?G(t)
     [file |-> "m.erl", kind |-> "int", name |-> "", val |-> 1, chars |-> <<>>, head |-> 0, kids |-> <<>>, body |-> <<>>, hasargs |-> FALSE],  \* 176: 1
     [file |-> "m.erl", kind |-> "macro", name |-> "MODULE", val |-> 0, chars |-> <<>>, head |-> 0, kids |-> <<176>>, body |-> <<>>, hasargs |-> TRUE],  \* 177: ?MODULE(1)
     [file |-> "m.erl", kind |-> "atom", name |-> "a", val |-> 0, chars |-> <<>>, head |-> 0, kids |-> <<>>, body |-> <<>>, hasargs |-> FALSE],  \* 178: a
     [file |-> "m.erl", kind |-> "macro", name |-> "ID", val |-> 0, chars |-> <<>>, head |-> 0, kids |-> <<178>>, body |-> <<>>, hasargs |-> TRUE],  \* 179: ?ID(a)
     [file |-> "m.erl", kind |-> "atom", name |-> "b", val |-> 0, chars |-> <<>>, head |-> 0, kids |-> <<>>, body |-> <<>>, hasargs |-> FALSE],  \* 180: b
     [file |-> "m.erl", kind |-> "macro", name |-> "ID", val |-> 0, chars |-> <<>>, head |-> 0, kids |-> <<180>>, body |-> <<>>, hasargs |-> TRUE],  \* 181: ?ID(b)
     [file |-> "m.erl", kind |-> "macro", name |-> "A", val |-> 0, chars |-> <<>>, head |-> 0, kids |-> <<>>, body |-> <<>>, hasargs |-> FALSE],  \* 182: ?A
     [file |-> "h.hrl", kind |-> "atom", name |-> "a", val |-> 0, chars |-> <<>>, head |-> 0, kids |-> <<>>, body |-> <<>>, hasargs |-> FALSE],  \* 183: a
     [file |-> "h.hrl", kind |-> "var", name |-> "B", val |-> 0, chars |-> <<>>, head |-> 0, kids |-> <<>>, body |-> <<>>, hasargs |-> FALSE],  \* 184: B
     [file |-> "h.hrl", kind |-> "tuple", name |-> "", val |-> 0, chars |-> <<>>, head |-> 0, kids |-> <<183, 184>>, body |-> <<>>, hasargs |-> FALSE],  \* 185: {a,B}
     [file |-> "h.hrl", kind |-> "var", name |-> "X", val |-> 0, chars |-> <<>>, head |-> 0, kids |-> <<>>, body |-> <<>>, hasargs |-> FALSE],  \* 186: X
     [file |-> "h.hrl", kind |-> "binseg", name |-> "", val |-> 0, chars |-> <<>>, head |-> 186, kids |-> <<>>, body |-> <<>>, hasargs |-> FALSE],  \* 187: X
     [file |-> "h.hrl", kind |-> "int", name |-> "", val |-> 2, chars |-> <<>>, head |-> 0, kids |-> <<>>, body |-> <<>>, hasargs |-> FALSE],  \* 188: 2
     [file |-> "h.hrl", kind |-> "binseg", name |-> "", val |-> 0, chars |-> <<>>, head |-> 188, kids |-> <<>>, body |-> <<>>, hasargs |-> FALSE],  \* 189: 2
     [file |-> "h.hrl", kind |-> "binary", name |-> "", val |-> 0, chars |-> <<>>, head |-> 0, kids |-> <<187, 189>>, body |-> <<>>, hasargs |-> FALSE],  \* 190: <<X,2>>
     [file |-> "h.hrl", kind |-> "atom", name |-> "integer", val |-> 0, chars |-> <<>>, head |-> 0, kids |-> <<>>, body |-> <<>>, hasargs |-> FALSE],  \* 191: integer
     [file |-> "m.erl", kind |-> "int", name |-> "", val |-> 1, chars |-> <<>>, head |-> 0, kids |-> <<>>, body |-> <<>>, hasargs |-> FALSE],  \* 192: 1
     [file |-> "m.erl", kind |-> "binseg", name |-> "", val |-> 0, chars |-> <<>>, head |-> 192, kids |-> <<>>, body |-> <<>>, hasargs |-> FALSE],  \* 193: 1
     [file |-> "m.erl", kind |-> "int", name |-> "", val |-> 2, chars |-> <<>>, head |-> 0, kids |-> <<>>, body |-> <<>>, hasargs |-> FALSE],  \* 194: 2
     [file |-> "m.erl", kind |-> "binseg", name |-> "", val |-> 0, chars |-> <<>>, head |-> 194, kids |-> <<>>, body |-> <<>>, hasargs |-> FALSE],  \* 195: 2
     [file |-> "m.erl", kind |-> "int", name |-> "", val |-> 3, chars |-> <<>>, head |-> 0, kids |-> <<>>, body |-> <<>>, hasargs |-> FALSE],  \* 196: 3
     [file |-> "m.erl", kind |-> "binseg", name |-> "", val |-> 0, chars |-> <<>>, head |-> 196, kids |-> <<>>, body |-> <<>>, hasargs |-> FALSE],  \* 197: 3
     [file |-> "m.erl", kind |-> "binary", name |-> "", val |-> 0, chars |-> <<>>, head |-> 0, kids |-> <<193, 195, 197>>, body |-> <<>>, hasargs |-> FALSE],  \* 198: <<1,2,3>>
     [file |-> "m.erl", kind |-> "binary", name |-> "", val |-> 0, chars |-> <<>>, head |-> 0, kids |-> <<>>, body |-> <<>>, hasargs |-> FALSE],  \* 199: <<>>
     [file |-> "m.erl", kind |-> "string", name |-> "", val |-> 0, chars |-> <<97, 300>>, head |-> 0, kids |-> <<>>, body |-> <<>>, hasargs |-> FALSE],  \* 200: "a<300>"
     [file |-> "m.erl", kind |-> "binseg", name |-> "", val |-> 0, chars |-> <<>>, head |-> 200, kids |-> <<>>, body |-> <<>>, hasargs |-> FALSE],  \* 201: "a<300>"
     [file |-> "m.erl", kind |-> "char", name |-> "", val |-> 99, chars |-> <<>>, head |-> 0, kids |-> <<>>, body |-> <<>>, hasargs |-> FALSE],  \* 202: $c
     [file |-> "m.erl", kind |-> "binseg", name |-> "", val |-> 0, chars |-> <<>>, head |-> 202, kids |-> <<>>, body |-> <<>>, hasargs |-> FALSE],  \* 203: $c
     [file |-> "m.erl", kind |-> "int", name |-> "", val |-> 300, chars |-> <<>>, head |-> 0, kids |-> <<>>, body |-> <<>>, hasargs |-> FALSE],  \* 204: 300
     [file |-> "m.erl", kind |-> "binseg", name |-> "", val |-> 0, chars |-> <<>>, head |-> 204, kids |-> <<>>, body |-> <<>>, hasargs |-> FALSE],  \* 205: 300
     [file |-> "m.erl", kind |-> "int", name |-> "", val |-> 1, chars |-> <<>>, head |-> 0, kids |-> <<>>, body |-> <<>>, hasargs |-> FALSE],  \* 206: 1
     [file |-> "m.erl", kind |-> "unary", name |-> "-", val |-> 0, chars |-> <<>>, head |-> 206, kids |-> <<>>, body |-> <<>>, hasargs |-> FALSE],  \* 207: -1
     [file |-> "m.erl", kind |-> "binseg", name |-> "", val |-> 0, chars |-> <<>>, head |-> 207, kids |-> <<>>, body |-> <<>>, hasargs |-> FALSE],  \* 208: -1
     [file |-> "m.erl", kind |-> "binary", name |-> "", val |-> 0, chars |-> <<>>, head |-> 0, kids |-> <<201, 203, 205, 208>>, body |-> <<>>, hasargs |-> FALSE],  \* 209: <<"a<300>",$c,300,-1>>
     [file |-> "m.erl", kind |-> "tuple", name |-> "", val |-> 0, chars |-> <<>>, head |-> 0, kids |-> <<198, 199, 209>>, body |-> <<>>, hasargs |-> FALSE],  \* 210: {<<1,2,3>>,<<>>,<<"a<300>",$c,300,-1>>}
     [file |-> "m.erl", kind |-> "int", name |-> "", val |-> 1, chars |-> <<>>, head |-> 0, kids |-> <<>>, body |-> <<>>, hasargs |-> FALSE],  \* 211: 1
     [file |-> "m.erl", kind |-> "int", name |-> "", val |-> 16, chars |-> <<>>, head |-> 0, kids |-> <<>>, body |-> <<>>, hasargs |-> FALSE],  \* 212: 16
     [file |-> "m.erl", kind |-> "binseg", name |-> "", val |-> 0, chars |-> <<>>, head |-> 211, kids |-> <<212>>, body |-> <<>>, hasargs |-> FALSE],  \* 213: 1:16
     [file |-> "m.erl", kind |-> "binary", name |-> "", val |-> 0, chars |-> <<>>, head |-> 0, kids |-> <<213>>, body |-> <<>>, hasargs |-> FALSE],  \* 214: <<1:16>>
     [file |-> "m.erl", kind |-> "int", name |-> "", val |-> 1, chars |-> <<>>, head |-> 0, kids |-> <<>>, body |-> <<>>, hasargs |-> FALSE],  \* 215: 1
     [file |-> "m.erl", kind |-> "binseg", name |-> "", val |-> 0, chars |-> <<>>, head |-> 215, kids |-> <<>>, body |-> <<>>, hasargs |-> FALSE],  \* 216: 1
     [file |-> "m.erl", kind |-> "atom", name |-> "a", val |-> 0, chars |-> <<>>, head |-> 0, kids |-> <<>>, body |-> <<>>, hasargs |-> FALSE],  \* 217: a
     [file |-> "m.erl", kind |-> "binseg", name |-> "", val |-> 0, chars |-> <<>>, head |-> 217, kids |-> <<>>, body |-> <<>>, hasargs |-> FALSE],  \* 218: a
     [file |-> "m.erl", kind |-> "int", name |-> "", val |-> 2, chars |-> <<>>, head |-> 0, kids |-> <<>>, body |-> <<>>, hasargs |-> FALSE],  \* 219: 2
     [file |-> "m.erl", kind |-> "binseg", name |-> "", val |-> 0, chars |-> <<>>, head |-> 219, kids |-> <<>>, body |-> <<>>, hasargs |-> FALSE],  \* 220: 2
     [file |-> "m.erl", kind |-> "binary", name |-> "", val |-> 0, chars |-> <<>>, head |-> 0, kids |-> <<216, 218, 220>>, body |-> <<>>, hasargs |-> FALSE],  \* 221: <<1,a,2>>
     [file |-> "m.erl", kind |-> "int", name |-> "", val |-> 1, chars |-> <<>>, head |-> 0, kids |-> <<>>, body |-> <<>>, hasargs |-> FALSE],  \* 222: 1
     [file |-> "m.erl", kind |-> "atom", name |-> "integer", val |-> 0, chars |-> <<>>, head |-> 0, kids |-> <<>>, body |-> <<>>, hasargs |-> FALSE],  \* 223: integer
     [file |-> "m.erl", kind |-> "binseg", name |-> "", val |-> 0, chars |-> <<>>, head |-> 222, kids |-> <<>>, body |-> <<223>>, hasargs |-> FALSE],  \* 224: 1/integer
     [file |-> "m.erl", kind |-> "binary", name |-> "", val |-> 0, chars |-> <<>>, head |-> 0, kids |-> <<224>>, body |-> <<>>, hasargs |-> FALSE],  \* 225: <<1/integer>>
     [file |-> "m.erl", kind |-> "int", name |-> "", val |-> 1, chars |-> <<>>, head |-> 0, kids |-> <<>>, body |-> <<>>, hasargs |-> FALSE],  \* 226: 1
     [file |-> "m.erl", kind |-> "int", name |-> "", val |-> 8, chars |-> <<>>, head |-> 0, kids |-> <<>>, body |-> <<>>, hasargs |-> FALSE],  \* 227: 8
     [file |-> "m.erl", kind |-> "unit", name |-> "", val |-> 0, chars |-> <<>>, head |-> 227, kids |-> <<>>, body |-> <<>>, hasargs |-> FALSE],  \* 228: unit:8
     [file |-> "m.erl", kind |-> "binseg", name |-> "", val |-> 0, chars |-> <<>>, head |-> 226, kids |-> <<>>, body |-> <<228>>, hasargs |-> FALSE],  \* 229: 1/unit:8
     [file |-> "m.erl", kind |-> "binary", name |-> "", val |-> 0, chars |-> <<>>, head |-> 0, kids |-> <<229>>, body |-> <<>>, hasargs |-> FALSE],  \* 230: <<1/unit:8>>
     [file |-> "m.erl", kind |-> "tuple", name |-> "", val |-> 0, chars |-> <<>>, head |-> 0, kids |-> <<214, 221, 225, 230>>, body |-> <<>>, hasargs |-> FALSE],  \* 231: {<<1:16>>,<<1,a,2>>,<<1/integer>>,<<1/unit:8>>}
     [file |-> "m.erl", kind |-> "int", name |-> "", val |-> 7, chars |-> <<>>, head |-> 0, kids |-> <<>>, body |-> <<>>, hasargs |-> FALSE],  \* 232: 7
     [file |-> "m.erl", kind |-> "macro", name |-> "SEG", val |-> 0, chars |-> <<>>, head |-> 0, kids |-> <<232>>, body |-> <<>>, hasargs |-> TRUE],  \* 233: ?SEG(7)
     [file |-> "m.erl", kind |-> "var", name |-> "V", val |-> 0, chars |-> <<>>, head |-> 0, kids |-> <<>>, body |-> <<>>, hasargs |-> FALSE],  \* 234: V
     [file |-> "m.erl", kind |-> "macro", name |-> "SEG", val |-> 0, chars |-> <<>>, head |-> 0, kids |-> <<234>>, body |-> <<>>, hasargs |-> TRUE],  \* 235: ?SEG(V)
     [file |-> "m.erl", kind |-> "macro", name |-> "LINE", val |-> 0, chars |-> <<>>, head |-> 0, kids |-> <<>>, body |-> <<>>, hasargs |-> FALSE],  \* 236: ?LINE
     [file |-> "m.erl", kind |-> "binseg", name |-> "", val |-> 0, chars |-> <<>>, head |-> 236, kids |-> <<>>, body |-> <<>>, hasargs |-> FALSE],  \* 237: ?LINE
     [file |-> "m.erl", kind |-> "binary", name |-> "", val |-> 0, chars |-> <<>>, head |-> 0, kids |-> <<237>>, body |-> <<>>, hasargs |-> FALSE],  \* 238: <<?LINE>>
     [file |-> "m.erl", kind |-> "int", name |-> "", val |-> 2, chars |-> <<>>, head |-> 0, kids |-> <<>>, body |-> <<>>, hasargs |-> FALSE],  \* 239: 2
     [file |-> "m.erl", kind |-> "paren", name |-> "", val |-> 0, chars |-> <<>>, head |-> 239, kids |-> <<>>, body |-> <<>>, hasargs |-> FALSE],  \* 240: (2)
     [file |-> "m.erl", kind |-> "binseg", name |-> "", val |-> 0, chars |-> <<>>, head |-> 240, kids |-> <<>>, body |-> <<>>, hasargs |-> FALSE],  \* 241: (2)
     [file |-> "m.erl", kind |-> "binary", name |-> "", val |-> 0, chars |-> <<>>, head |-> 0, kids |-> <<241>>, body |-> <<>>, hasargs |-> FALSE],  \* 242: <<(2)>>
     [file |-> "m.erl", kind |-> "tuple", name |-> "", val |-> 0, chars |-> <<>>, head |-> 0, kids |-> <<233, 235, 238, 242>>, body |-> <<>>, hasargs |-> FALSE],  \* 243: {?SEG(7),?SEG(V),<<?LINE>>,<<(2)>>}
     [file |-> "m.erl", kind |-> "int", name |-> "", val |-> 1, chars |-> <<>>, head |-> 0, kids |-> <<>>, body |-> <<>>, hasargs |-> FALSE],  \* 244: 1
     [file |-> "m.erl", kind |-> "macro", name |-> "T", val |-> 0, chars |-> <<>>, head |-> 0, kids |-> <<>>, body |-> <<>>, hasargs |-> FALSE],  \* 245: ?T
     [file |-> "m.erl", kind |-> "binseg", name |-> "", val |-> 0, chars |-> <<>>, head |-> 244, kids |-> <<>>, body |-> <<245>>, hasargs |-> FALSE],  \* 246: 1/?T
     [file |-> "m.erl", kind |-> "binary", name |-> "", val |-> 0, chars |-> <<>>, head |-> 0, kids |-> <<246>>, body |-> <<>>, hasargs |-> FALSE],  \* 247: <<1/?T>>
     [file |-> "m.erl", kind |-> "int", name |-> "", val |-> 1, chars |-> <<>>, head |-> 0, kids |-> <<>>, body |-> <<>>, hasargs |-> FALSE],  \* 248: 1
     [file |-> "m.erl", kind |-> "macro", name |-> "UNDEF", val |-> 0, chars |-> <<>>, head |-> 0, kids |-> <<>>, body |-> <<>>, hasargs |-> FALSE],  \* 249: ?UNDEF
     [file |-> "m.erl", kind |-> "unit", name |-> "", val |-> 0, chars |-> <<>>, head |-> 249, kids |-> <<>>, body |-> <<>>, hasargs |-> FALSE],  \* 250: unit:?UNDEF
     [file |-> "m.erl", kind |-> "binseg", name |-> "", val |-> 0, chars |-> <<>>, head |-> 248, kids |-> <<>>, body |-> <<250>>, hasargs |-> FALSE],  \* 251: 1/unit:?UNDEF
     [file |-> "m.erl", kind |-> "binary", name |-> "", val |-> 0, chars |-> <<>>, head |-> 0, kids |-> <<251>>, body |-> <<>>, hasargs |-> FALSE],  \* 252: <<1/unit:?UNDEF>>
     [file |-> "m.erl", kind |-> "int", name |-> "", val |-> 1, chars |-> <<>>, head |-> 0, kids |-> <<>>, body |-> <<>>, hasargs |-> FALSE],  \* 253: 1
     [file |-> "m.erl", kind |-> "binseg", name |-> "", val |-> 0, chars |-> <<>>, head |-> 253, kids |-> <<>>, body |-> <<>>, hasargs |-> FALSE],  \* 254: 1
     [file |-> "m.erl", kind |-> "var", name |-> "X", val |-> 0, chars |-> <<>>, head |-> 0, kids |-> <<>>, body |-> <<>>, hasargs |-> FALSE],  \* 255: X
     [file |-> "m.erl", kind |-> "int", name |-> "", val |-> 8, chars |-> <<>>, head |-> 0, kids |-> <<>>, body |-> <<>>, hasargs |-> FALSE],  \* 256: 8
     [file |-> "m.erl", kind |-> "binseg", name |-> "", val |-> 0, chars |-> <<>>, head |-> 255, kids |-> <<256>>, body |-> <<>>, hasargs |-> FALSE],  \* 257: X:8
     [file |-> "m.erl", kind |-> "binary", name |-> "", val |-> 0, chars |-> <<>>, head |-> 0, kids |-> <<254, 257>>, body |-> <<>>, hasargs |-> FALSE],  \* 258: <<1,X:8>>
     [file |-> "m.erl", kind |-> "var", name |-> "X", val |-> 0, chars |-> <<>>, head |-> 0, kids |-> <<>>, body |-> <<>>, hasargs |-> FALSE],  \* 259: X
     [file |-> "m.erl", kind |-> "int", name |-> "", val |-> 8, chars |-> <<>>, head |-> 0, kids |-> <<>>, body |-> <<>>, hasargs |-> FALSE],  \* 260: 8
     [file |-> "m.erl", kind |-> "atom", name |-> "integer", val |-> 0, chars |-> <<>>, head |-> 0, kids |-> <<>>, body |-> <<>>, hasargs |-> FALSE],  \* 261: integer
     [file |-> "m.erl", kind |-> "int", name |-> "", val |-> 1, chars |-> <<>>, head |-> 0, kids |-> <<>>, body |-> <<>>, hasargs |-> FALSE],  \* 262: 1
     [file |-> "m.erl", kind |-> "unit", name |-> "", val |-> 0, chars |-> <<>>, head |-> 262, kids |-> <<>>, body |-> <<>>, hasargs |-> FALSE],  \* 263: unit:1
     [file |-> "m.erl", kind |-> "binseg", name |-> "", val |-> 0, chars |-> <<>>, head |-> 259, kids |-> <<260>>, body |-> <<261, 263>>, hasargs |-> FALSE],  \* 264: X:8/integer-unit:1
     [file |-> "m.erl", kind |-> "var", name |-> "R", val |-> 0, chars |-> <<>>, head |-> 0, kids |-> <<>>, body |-> <<>>, hasargs |-> FALSE],  \* 265: R
     [file |-> "m.erl", kind |-> "atom", name |-> "binary", val |-> 0, chars |-> <<>>, head |-> 0, kids |-> <<>>, body |-> <<>>, hasargs |-> FALSE],  \* 266: binary
     [file |-> "m.erl", kind |-> "binseg", name |-> "", val |-> 0, chars |-> <<>>, head |-> 265, kids |-> <<>>, body |-> <<266>>, hasargs |-> FALSE],  \* 267: R/binary
     [file |-> "m.erl", kind |-> "binary", name |-> "", val |-> 0, chars |-> <<>>, head |-> 0, kids |-> <<264, 267>>, body |-> <<>>, hasargs |-> FALSE],  \* 268: <<X:8/integer-unit:1,R/binary>>
     [file |-> "m.erl", kind |-> "clause", name |-> "", val |-> 0, chars |-> <<>>, head |-> 0, kids |-> <<268>>, body |-> <<258>>, hasargs |-> FALSE],  \* 269: f(<<X:8/integer-unit:1,R/binary>>) -> <<1,X:8>>
     [file |-> "m.erl", kind |-> "int", name |-> "", val |-> 1, chars |-> <<>>, head |-> 0, kids |-> <<>>, body |-> <<>>, hasargs |-> FALSE],  \* 270: 1
     [file |-> "m.erl", kind |-> "binseg", name |-> "", val |-> 0, chars |-> <<>>, head |-> 270, kids |-> <<>>, body |-> <<>>, hasargs |-> FALSE],  \* 271: 1
     [file |-> "m.erl", kind |-> "binary", name |-> "", val |-> 0, chars |-> <<>>, head |-> 0, kids |-> <<271>>, body |-> <<>>, hasargs |-> FALSE],  \* 272: <<1>>
     [file |-> "m.erl", kind |-> "int", name |-> "", val |-> 1, chars |-> <<>>, head |-> 0, kids |-> <<>>, body |-> <<>>, hasargs |-> FALSE],  \* 273: 1
     [file |-> "m.erl", kind |-> "unary", name |-> "-", val |-> 0, chars |-> <<>>, head |-> 273, kids |-> <<>>, body |-> <<>>, hasargs |-> FALSE],  \* 274: -1
     [file |-> "m.erl", kind |-> "int", name |-> "", val |-> 2, chars |-> <<>>, head |-> 0, kids |-> <<>>, body |-> <<>>, hasargs |-> FALSE],  \* 275: 2
     [file |-> "m.erl", kind |-> "unary", name |-> "+", val |-> 0, chars |-> <<>>, head |-> 275, kids |-> <<>>, body |-> <<>>, hasargs |-> FALSE],  \* 276: +2
     [file |-> "m.erl", kind |-> "int", name |-> "", val |-> 3, chars |-> <<>>, head |-> 0, kids |-> <<>>, body |-> <<>>, hasargs |-> FALSE],  \* 277: 3
     [file |-> "m.erl", kind |-> "unary", name |-> "-", val |-> 0, chars |-> <<>>, head |-> 277, kids |-> <<>>, body |-> <<>>, hasargs |-> FALSE],  \* 278: -3
     [file |-> "m.erl", kind |-> "unary", name |-> "-", val |-> 0, chars |-> <<>>, head |-> 278, kids |-> <<>>, body |-> <<>>, hasargs |-> FALSE],  \* 279: --3
     [file |-> "m.erl", kind |-> "int", name |-> "", val |-> 1, chars |-> <<>>, head |-> 0, kids |-> <<>>, body |-> <<>>, hasargs |-> FALSE],  \* 280: 1
     [file |-> "m.erl", kind |-> "unary", name |-> "not", val |-> 0, chars |-> <<>>, head |-> 280, kids |-> <<>>, body |-> <<>>, hasargs |-> FALSE],  \* 281: not 1
     [file |-> "m.erl", kind |-> "tuple", name |-> "", val |-> 0, chars |-> <<>>, head |-> 0, kids |-> <<274, 276, 279, 281>>, body |-> <<>>, hasargs |-> FALSE],  \* 282: {-1,+2,--3,not 1}
     [file |-> "m.erl", kind |-> "atom", name |-> "a", val |-> 0, chars |-> <<>>, head |-> 0, kids |-> <<>>, body |-> <<>>, hasargs |-> FALSE],  \* 283: a
     [file |-> "m.erl", kind |-> "unary", name |-> "-", val |-> 0, chars |-> <<>>, head |-> 283, kids |-> <<>>, body |-> <<>>, hasargs |-> FALSE],  \* 284: -a
     [file |-> "m.erl", kind |-> "string", name |-> "", val |-> 0, chars |-> <<115>>, head |-> 0, kids |-> <<>>, body |-> <<>>, hasargs |-> FALSE],  \* 285: "s"
     [file |-> "m.erl", kind |-> "unary", name |-> "-", val |-> 0, chars |-> <<>>, head |-> 285, kids |-> <<>>, body |-> <<>>, hasargs |-> FALSE],  \* 286: -"s"
     [file |-> "m.erl", kind |-> "int", name |-> "", val |-> 1, chars |-> <<>>, head |-> 0, kids |-> <<>>, body |-> <<>>, hasargs |-> FALSE],  \* 287: 1
     [file |-> "m.erl", kind |-> "tuple", name |-> "", val |-> 0, chars |-> <<>>, head |-> 0, kids |-> <<287>>, body |-> <<>>, hasargs |-> FALSE],  \* 288: {1}
     [file |-> "m.erl", kind |-> "unary", name |-> "-", val |-> 0, chars |-> <<>>, head |-> 288, kids |-> <<>>, body |-> <<>>, hasargs |-> FALSE],  \* 289: -{1}
     [file |-> "m.erl", kind |-> "var", name |-> "V", val |-> 0, chars |-> <<>>, head |-> 0, kids |-> <<>>, body |-> <<>>, hasargs |-> FALSE],  \* 290: V
     [file |-> "m.erl", kind |-> "unary", name |-> "-", val |-> 0, chars |-> <<>>, head |-> 290, kids |-> <<>>, body |-> <<>>, hasargs |-> FALSE],  \* 291: -V
     [file |-> "m.erl", kind |-> "var", name |-> "V", val |-> 0, chars |-> <<>>, head |-> 0, kids |-> <<>>, body |-> <<>>, hasargs |-> FALSE],  \* 292: V
     [file |-> "m.erl", kind |-> "unary", name |-> "+", val |-> 0, chars |-> <<>>, head |-> 292, kids |-> <<>>, body |-> <<>>, hasargs |-> FALSE],  \* 293: +V
     [file |-> "m.erl", kind |-> "tuple", name |-> "", val |-> 0, chars |-> <<>>, head |-> 0, kids |-> <<284, 286, 289, 291, 293>>, body |-> <<>>, hasargs |-> FALSE],  \* 294: {-a,-"s",-{1},-V,+V}
     [file |-> "m.erl", kind |-> "atom", name |-> "a", val |-> 0, chars |-> <<>>, head |-> 0, kids |-> <<>>, body |-> <<>>, hasargs |-> FALSE],  \* 295: a
     [file |-> "m.erl", kind |-> "unary", name |-> "+", val |-> 0, chars |-> <<>>, head |-> 295, kids |-> <<>>, body |-> <<>>, hasargs |-> FALSE],  \* 296: +a
     [file |-> "m.erl", kind |-> "string", name |-> "", val |-> 0, chars |-> <<115>>, head |-> 0, kids |-> <<>>, body |-> <<>>, hasargs |-> FALSE],  \* 297: "s"
     [file |-> "m.erl", kind |-> "unary", name |-> "+", val |-> 0, chars |-> <<>>, head |-> 297, kids |-> <<>>, body |-> <<>>, hasargs |-> FALSE],  \* 298: +"s"
     [file |-> "m.erl", kind |-> "int", name |-> "", val |-> 1, chars |-> <<>>, head |-> 0, kids |-> <<>>, body |-> <<>>, hasargs |-> FALSE],  \* 299: 1
     [file |-> "m.erl", kind |-> "tuple", name |-> "", val |-> 0, chars |-> <<>>, head |-> 0, kids |-> <<299>>, body |-> <<>>, hasargs |-> FALSE],  \* 300: {1}
     [file |-> "m.erl", kind |-> "unary", name |-> "+", val |-> 0, chars |-> <<>>, head |-> 300, kids |-> <<>>, body |-> <<>>, hasargs |-> FALSE],  \* 301: +{1}
     [file |-> "m.erl", kind |-> "int", name |-> "", val |-> 1, chars |-> <<>>, head |-> 0, kids |-> <<>>, body |-> <<>>, hasargs |-> FALSE],  \* 302: 1
     [file |-> "m.erl", kind |-> "list", name |-> "", val |-> 0, chars |-> <<>>, head |-> 0, kids |-> <<302>>, body |-> <<>>, hasargs |-> FALSE],  \* 303: [1]
     [file |-> "m.erl", kind |-> "unary", name |-> "+", val |-> 0, chars |-> <<>>, head |-> 303, kids |-> <<>>, body |-> <<>>, hasargs |-> FALSE],  \* 304: +[1]
     [file |-> "m.erl", kind |-> "tuple", name |-> "", val |-> 0, chars |-> <<>>, head |-> 0, kids |-> <<298, 301, 304>>, body |-> <<>>, hasargs |-> FALSE],  \* 305: {+"s",+{1},+[1]}
     [file |-> "m.erl", kind |-> "var", name |-> "X", val |-> 0, chars |-> <<>>, head |-> 0, kids |-> <<>>, body |-> <<>>, hasargs |-> FALSE],  \* 306: X
     [file |-> "m.erl", kind |-> "unary", name |-> "-", val |-> 0, chars |-> <<>>, head |-> 306, kids |-> <<>>, body |-> <<>>, hasargs |-> FALSE],  \* 307: -X
     [file |-> "m.erl", kind |-> "int", name |-> "", val |-> 1, chars |-> <<>>, head |-> 0, kids |-> <<>>, body |-> <<>>, hasargs |-> FALSE],  \* 308: 1
     [file |-> "m.erl", kind |-> "unary", name |-> "-", val |-> 0, chars |-> <<>>, head |-> 308, kids |-> <<>>, body |-> <<>>, hasargs |-> FALSE],  \* 309: -1
     [file |-> "m.erl", kind |-> "clause", name |-> "", val |-> 0, chars |-> <<>>, head |-> 0, kids |-> <<309>>, body |-> <<307>>, hasargs |-> FALSE],  \* 310: f(-1) -> -X
     [file |-> "m.erl", kind |-> "int", name |-> "", val |-> 1, chars |-> <<>>, head |-> 0, kids |-> <<>>, body |-> <<>>, hasargs |-> FALSE],  \* 311: 1
     [file |-> "m.erl", kind |-> "unary", name |-> "-", val |-> 0, chars |-> <<>>, head |-> 311, kids |-> <<>>, body |-> <<>>, hasargs |-> FALSE],  \* 312: -1
     [file |-> "m.erl", kind |-> "atom", name |-> "a", val |-> 0, chars |-> <<>>, head |-> 0, kids |-> <<>>, body |-> <<>>, hasargs |-> FALSE],  \* 313: a
     [file |-> "m.erl", kind |-> "int", name |-> "", val |-> 1, chars |-> <<>>, head |-> 0, kids |-> <<>>, body |-> <<>>, hasargs |-> FALSE],  \* 314: 1
     [file |-> "m.erl", kind |-> "mapfield", name |-> ":=", val |-> 0, chars |-> <<>>, head |-> 0, kids |-> <<313, 314>>, body |-> <<>>, hasargs |-> FALSE],  \* 315: a := 1
     [file |-> "m.erl", kind |-> "atom", name |-> "b", val |-> 0, chars |-> <<>>, head |-> 0, kids |-> <<>>, body |-> <<>>, hasargs |-> FALSE],  \* 316: b
     [file |-> "m.erl", kind |-> "int", name |-> "", val |-> 2, chars |-> <<>>, head |-> 0, kids |-> <<>>, body |-> <<>>, hasargs |-> FALSE],  \* 317: 2
     [file |-> "m.erl", kind |-> "mapfield", name |-> "=>", val |-> 0, chars |-> <<>>, head |-> 0, kids |-> <<316, 317>>, body |-> <<>>, hasargs |-> FALSE],  \* 318: b => 2
     [file |-> "m.erl", kind |-> "map", name |-> "", val |-> 0, chars |-> <<>>, head |-> 0, kids |-> <<315, 318>>, body |-> <<>>, hasargs |-> FALSE],  \* 319: #{a := 1, b => 2}
     [file |-> "m.erl", kind |-> "atom", name |-> "a", val |-> 0, chars |-> <<>>, head |-> 0, kids |-> <<>>, body |-> <<>>, hasargs |-> FALSE],  \* 320: a
     [file |-> "m.erl", kind |-> "var", name |-> "X", val |-> 0, chars |-> <<>>, head |-> 0, kids |-> <<>>, body |-> <<>>, hasargs |-> FALSE],  \* 321: X
     [file |-> "m.erl", kind |-> "mapfield", name |-> ":=", val |-> 0, chars |-> <<>>, head |-> 0, kids |-> <<320, 321>>, body |-> <<>>, hasargs |-> FALSE],  \* 322: a := X
     [file |-> "m.erl", kind |-> "atom", name |-> "b", val |-> 0, chars |-> <<>>, head |-> 0, kids |-> <<>>, body |-> <<>>, hasargs |-> FALSE],  \* 323: b
     [file |-> "m.erl", kind |-> "var", name |-> "Y", val |-> 0, chars |-> <<>>, head |-> 0, kids |-> <<>>, body |-> <<>>, hasargs |-> FALSE],  \* 324: Y
     [file |-> "m.erl", kind |-> "mapfield", name |-> "=>", val |-> 0, chars |-> <<>>, head |-> 0, kids |-> <<323, 324>>, body |-> <<>>, hasargs |-> FALSE],  \* 325: b => Y
     [file |-> "m.erl", kind |-> "map", name |-> "", val |-> 0, chars |-> <<>>, head |-> 0, kids |-> <<322, 325>>, body |-> <<>>, hasargs |-> FALSE],  \* 326: #{a := X, b => Y}
     [file |-> "m.erl", kind |-> "clause", name |-> "", val |-> 0, chars |-> <<>>, head |-> 0, kids |-> <<326>>, body |-> <<319>>, hasargs |-> FALSE],  \* 327: f(#{a := X, b => Y}) -> #{a := 1, b => 2}
     [file |-> "m.erl", kind |-> "atom", name |-> "a", val |-> 0, chars |-> <<>>, head |-> 0, kids |-> <<>>, body |-> <<>>, hasargs |-> FALSE],  \* 328: a
     [file |-> "m.erl", kind |-> "int", name |-> "", val |-> 1, chars |-> <<>>, head |-> 0, kids |-> <<>>, body |-> <<>>, hasargs |-> FALSE],  \* 329: 1
     [file |-> "m.erl", kind |-> "mapfield", name |-> "=>", val |-> 0, chars |-> <<>>, head |-> 0, kids |-> <<328, 329>>, body |-> <<>>, hasargs |-> FALSE],  \* 330: a => 1
     [file |-> "m.erl", kind |-> "atom", name |-> "b", val |-> 0, chars |-> <<>>, head |-> 0, kids |-> <<>>, body |-> <<>>, hasargs |-> FALSE],  \* 331: b
     [file |-> "m.erl", kind |-> "mapfield", name |-> "=>", val |-> 0, chars |-> <<>>, head |-> 0, kids |-> <<331, 0>>, body |-> <<>>, hasargs |-> FALSE],  \* 332: b => _absent_
     [file |-> "m.erl", kind |-> "map", name |-> "", val |-> 0, chars |-> <<>>, head |-> 0, kids |-> <<330, 332>>, body |-> <<>>, hasargs |-> FALSE],  \* 333: #{a => 1, b => _absent_}
     [file |-> "m.erl", kind |-> "map", name |-> "", val |-> 0, chars |-> <<>>, head |-> 0, kids |-> <<>>, body |-> <<>>, hasargs |-> FALSE],  \* 334: #{}
     [file |-> "m.erl", kind |-> "atom", name |-> "a", val |-> 0, chars |-> <<>>, head |-> 0, kids |-> <<>>, body |-> <<>>, hasargs |-> FALSE],  \* 335: a
     [file |-> "m.erl", kind |-> "int", name |-> "", val |-> 1, chars |-> <<>>, head |-> 0, kids |-> <<>>, body |-> <<>>, hasargs |-> FALSE],  \* 336: 1
     [file |-> "m.erl", kind |-> "mapfield", name |-> ":=", val |-> 0, chars |-> <<>>, head |-> 0, kids |-> <<335, 336>>, body |-> <<>>, hasargs |-> FALSE],  \* 337: a := 1
     [file |-> "m.erl", kind |-> "map", name |-> "", val |-> 0, chars |-> <<>>, head |-> 0, kids |-> <<337>>, body |-> <<>>, hasargs |-> FALSE],  \* 338: #{a := 1}
     [file |-> "m.erl", kind |-> "atom", name |-> "a", val |-> 0, chars |-> <<>>, head |-> 0, kids |-> <<>>, body |-> <<>>, hasargs |-> FALSE],  \* 339: a
     [file |-> "m.erl", kind |-> "int", name |-> "", val |-> 1, chars |-> <<>>, head |-> 0, kids |-> <<>>, body |-> <<>>, hasargs |-> FALSE],  \* 340: 1
     [file |-> "m.erl", kind |-> "mapfield", name |-> "=>", val |-> 0, chars |-> <<>>, head |-> 0, kids |-> <<339, 340>>, body |-> <<>>, hasargs |-> FALSE],  \* 341: a => 1
     [file |-> "m.erl", kind |-> "map", name |-> "", val |-> 0, chars |-> <<>>, head |-> 0, kids |-> <<341>>, body |-> <<>>, hasargs |-> FALSE],  \* 342: #{a => 1}
     [file |-> "m.erl", kind |-> "clause", name |-> "", val |-> 0, chars |-> <<>>, head |-> 0, kids |-> <<338, 342>>, body |-> <<333, 334>>, hasargs |-> FALSE],  \* 343: f(#{a := 1},#{a => 1}) -> #{a => 1, b => _absent_},#{}
     [file |-> "m.erl", kind |-> "atom", name |-> "a", val |-> 0, chars |-> <<>>, head |-> 0, kids |-> <<>>, body |-> <<>>, hasargs |-> FALSE],  \* 344: a
     [file |-> "m.erl", kind |-> "int", name |-> "", val |-> 1, chars |-> <<>>, head |-> 0, kids |-> <<>>, body |-> <<>>, hasargs |-> FALSE],  \* 345: 1
     [file |-> "m.erl", kind |-> "mapfield", name |-> "=>", val |-> 0, chars |-> <<>>, head |-> 0, kids |-> <<344, 345>>, body |-> <<>>, hasargs |-> FALSE],  \* 346: a => 1
     [file |-> "m.erl", kind |-> "atom", name |-> "b", val |-> 0, chars |-> <<>>, head |-> 0, kids |-> <<>>, body |-> <<>>, hasargs |-> FALSE],  \* 347: b
     [file |-> "m.erl", kind |-> "int", name |-> "", val |-> 2, chars |-> <<>>, head |-> 0, kids |-> <<>>, body |-> <<>>, hasargs |-> FALSE],  \* 348: 2
     [file |-> "m.erl", kind |-> "mapfield", name |-> ":=", val |-> 0, chars |-> <<>>, head |-> 0, kids |-> <<347, 348>>, body |-> <<>>, hasargs |-> FALSE],  \* 349: b := 2
     [file |-> "m.erl", kind |-> "map", name |-> "", val |-> 0, chars |-> <<>>, head |-> 0, kids |-> <<346, 349>>, body |-> <<>>, hasargs |-> FALSE],  \* 350: #{a => 1, b := 2}
     [file |-> "m.erl", kind |-> "atom", name |-> "a", val |-> 0, chars |-> <<>>, head |-> 0, kids |-> <<>>, body |-> <<>>, hasargs |-> FALSE],  \* 351: a
     [file |-> "m.erl", kind |-> "atom", name |-> "b", val |-> 0, chars |-> <<>>, head |-> 0, kids |-> <<>>, body |-> <<>>, hasargs |-> FALSE],  \* 352: b
     [file |-> "m.erl", kind |-> "mapfield", name |-> ":=", val |-> 0, chars |-> <<>>, head |-> 0, kids |-> <<351, 352>>, body |-> <<>>, hasargs |-> FALSE],  \* 353: a := b
     [file |-> "m.erl", kind |-> "atom", name |-> "c", val |-> 0, chars |-> <<>>, head |-> 0, kids |-> <<>>, body |-> <<>>, hasargs |-> FALSE],  \* 354: c
     [file |-> "m.erl", kind |-> "atom", name |-> "d", val |-> 0, chars |-> <<>>, head |-> 0, kids |-> <<>>, body |-> <<>>, hasargs |-> FALSE],  \* 355: d
     [file |-> "m.erl", kind |-> "mapfield", name |-> "=>", val |-> 0, chars |-> <<>>, head |-> 0, kids |-> <<354, 355>>, body |-> <<>>, hasargs |-> FALSE],  \* 356: c => d
     [file |-> "m.erl", kind |-> "map", name |-> "", val |-> 0, chars |-> <<>>, head |-> 0, kids |-> <<353, 356>>, body |-> <<>>, hasargs |-> FALSE],  \* 357: #{a := b, c => d}
     [file |-> "m.erl", kind |-> "atom", name |-> "a", val |-> 0, chars |-> <<>>, head |-> 0, kids |-> <<>>, body |-> <<>>, hasargs |-> FALSE],  \* 358: a
     [file |-> "m.erl", kind |-> "var", name |-> "B", val |-> 0, chars |-> <<>>, head |-> 0, kids |-> <<>>, body |-> <<>>, hasargs |-> FALSE],  \* 359: B
     [file |-> "m.erl", kind |-> "tuple", name |-> "", val |-> 0, chars |-> <<>>, head |-> 0, kids |-> <<358, 359>>, body |-> <<>>, hasargs |-> FALSE],  \* 360: {a,B}
     [file |-> "m.erl", kind |-> "atom", name |-> "a", val |-> 0, chars |-> <<>>, head |-> 0, kids |-> <<>>, body |-> <<>>, hasargs |-> FALSE],  \* 361: a
     [file |-> "m.erl", kind |-> "var", name |-> "B", val |-> 0, chars |-> <<>>, head |-> 0, kids |-> <<>>, body |-> <<>>, hasargs |-> FALSE],  \* 362: B
     [file |-> "m.erl", kind |-> "tuple", name |-> "", val |-> 0, chars |-> <<>>, head |-> 0, kids |-> <<361, 362>>, body |-> <<>>, hasargs |-> FALSE],  \* 363: {a,B}
     [file |-> "m.erl", kind |-> "clause", name |-> "", val |-> 0, chars |-> <<>>, head |-> 0, kids |-> <<363>>, body |-> <<360>>, hasargs |-> FALSE],  \* 364: f({a,B}) -> {a,B}
     [file |-> "m.erl", kind |-> "atom", name |-> "a", val |-> 0, chars |-> <<>>, head |-> 0, kids |-> <<>>, body |-> <<>>, hasargs |-> FALSE],  \* 365: a
     [file |-> "m.erl", kind |-> "var", name |-> "B", val |-> 0, chars |-> <<>>, head |-> 0, kids |-> <<>>, body |-> <<>>, hasargs |-> FALSE],  \* 366: B
     [file |-> "m.erl", kind |-> "tuple", name |-> "", val |-> 0, chars |-> <<>>, head |-> 0, kids |-> <<365, 366>>, body |-> <<>>, hasargs |-> FALSE],  \* 367: {a,B}
     [file |-> "m.erl", kind |-> "int", name |-> "", val |-> 1, chars |-> <<>>, head |-> 0, kids |-> <<>>, body |-> <<>>, hasargs |-> FALSE],  \* 368: 1
     [file |-> "m.erl", kind |-> "macro", name |-> "LIT", val |-> 0, chars |-> <<>>, head |-> 0, kids |-> <<368>>, body |-> <<>>, hasargs |-> TRUE],  \* 369: ?LIT(1)
     [file |-> "m.erl", kind |-> "var", name |-> "C", val |-> 0, chars |-> <<>>, head |-> 0, kids |-> <<>>, body |-> <<>>, hasargs |-> FALSE],  \* 370: C
     [file |-> "m.erl", kind |-> "macro", name |-> "LIT", val |-> 0, chars |-> <<>>, head |-> 0, kids |-> <<370>>, body |-> <<>>, hasargs |-> TRUE],  \* 371: ?LIT(C)
     [file |-> "m.erl", kind |-> "atom", name |-> "a", val |-> 0, chars |-> <<>>, head |-> 0, kids |-> <<>>, body |-> <<>>, hasargs |-> FALSE],  \* 372: a
     [file |-> "m.erl", kind |-> "atom", name |-> "b", val |-> 0, chars |-> <<>>, head |-> 0, kids |-> <<>>, body |-> <<>>, hasargs |-> FALSE],  \* 373: b
     [file |-> "m.erl", kind |-> "atom", name |-> "c", val |-> 0, chars |-> <<>>, head |-> 0, kids |-> <<>>, body |-> <<>>, hasargs |-> FALSE],  \* 374: c
     [file |-> "m.erl", kind |-> "pipe", name |-> "", val |-> 0, chars |-> <<>>, head |-> 0, kids |-> <<373, 374>>, body |-> <<>>, hasargs |-> FALSE],  \* 375: b | c
     [file |-> "m.erl", kind |-> "list", name |-> "", val |-> 0, chars |-> <<>>, head |-> 0, kids |-> <<372, 375>>, body |-> <<>>, hasargs |-> FALSE],  \* 376: [a,b | c]
     [file |-> "m.erl", kind |-> "list", name |-> "", val |-> 0, chars |-> <<>>, head |-> 0, kids |-> <<>>, body |-> <<>>, hasargs |-> FALSE],  \* 377: []
     [file |-> "m.erl", kind |-> "atom", name |-> "a", val |-> 0, chars |-> <<>>, head |-> 0, kids |-> <<>>, body |-> <<>>, hasargs |-> FALSE],  \* 378: a
     [file |-> "m.erl", kind |-> "var", name |-> "T", val |-> 0, chars |-> <<>>, head |-> 0, kids |-> <<>>, body |-> <<>>, hasargs |-> FALSE],  \* 379: T
     [file |-> "m.erl", kind |-> "pipe", name |-> "", val |-> 0, chars |-> <<>>, head |-> 0, kids |-> <<378, 379>>, body |-> <<>>, hasargs |-> FALSE],  \* 380: a | T
     [file |-> "m.erl", kind |-> "list", name |-> "", val |-> 0, chars |-> <<>>, head |-> 0, kids |-> <<380>>, body |-> <<>>, hasargs |-> FALSE],  \* 381: [a | T]
     [file |-> "m.erl", kind |-> "clause", name |-> "", val |-> 0, chars |-> <<>>, head |-> 0, kids |-> <<381>>, body |-> <<376, 377>>, hasargs |-> FALSE],  \* 382: f([a | T]) -> [a,b | c],[]
     [file |-> "m.erl", kind |-> "atom", name |-> "a", val |-> 0, chars |-> <<>>, head |-> 0, kids |-> <<>>, body |-> <<>>, hasargs |-> FALSE],  \* 383: a
     [file |-> "m.erl", kind |-> "atom", name |-> "b", val |-> 0, chars |-> <<>>, head |-> 0, kids |-> <<>>, body |-> <<>>, hasargs |-> FALSE],  \* 384: b
     [file |-> "m.erl", kind |-> "pipe", name |-> "", val |-> 0, chars |-> <<>>, head |-> 0, kids |-> <<383, 384>>, body |-> <<>>, hasargs |-> FALSE],  \* 385: a | b
     [file |-> "m.erl", kind |-> "atom", name |-> "c", val |-> 0, chars |-> <<>>, head |-> 0, kids |-> <<>>, body |-> <<>>, hasargs |-> FALSE],  \* 386: c
     [file |-> "m.erl", kind |-> "atom", name |-> "d", val |-> 0, chars |-> <<>>, head |-> 0, kids |-> <<>>, body |-> <<>>, hasargs |-> FALSE],  \* 387: d
     [file |-> "m.erl", kind |-> "pipe", name |-> "", val |-> 0, chars |-> <<>>, head |-> 0, kids |-> <<386, 387>>, body |-> <<>>, hasargs |-> FALSE],  \* 388: c | d
     [file |-> "m.erl", kind |-> "list", name |-> "", val |-> 0, chars |-> <<>>, head |-> 0, kids |-> <<385, 388>>, body |-> <<>>, hasargs |-> FALSE],  \* 389: [a | b,c | d]
     [file |-> "m.erl", kind |-> "clause", name |-> "", val |-> 0, chars |-> <<>>, head |-> 0, kids |-> <<>>, body |-> <<389>>, hasargs |-> FALSE],  \* 390: f() -> [a | b,c | d]
     [file |-> "m.erl", kind |-> "atom", name |-> "a", val |-> 0, chars |-> <<>>, head |-> 0, kids |-> <<>>, body |-> <<>>, hasargs |-> FALSE],  \* 391: a
     [file |-> "m.erl", kind |-> "atom", name |-> "b", val |-> 0, chars |-> <<>>, head |-> 0, kids |-> <<>>, body |-> <<>>, hasargs |-> FALSE],  \* 392: b
     [file |-> "m.erl", kind |-> "pipe", name |-> "", val |-> 0, chars |-> <<>>, head |-> 0, kids |-> <<391, 392>>, body |-> <<>>, hasargs |-> FALSE],  \* 393: a | b
     [file |-> "m.erl", kind |-> "atom", name |-> "e", val |-> 0, chars |-> <<>>, head |-> 0, kids |-> <<>>, body |-> <<>>, hasargs |-> FALSE],  \* 394: e
     [file |-> "m.erl", kind |-> "atom", name |-> "c", val |-> 0, chars |-> <<>>, head |-> 0, kids |-> <<>>, body |-> <<>>, hasargs |-> FALSE],  \* 395: c
     [file |-> "m.erl", kind |-> "pipe", name |-> "", val |-> 0, chars |-> <<>>, head |-> 0, kids |-> <<395, 0>>, body |-> <<>>, hasargs |-> FALSE],  \* 396: c | 
     [file |-> "m.erl", kind |-> "list", name |-> "", val |-> 0, chars |-> <<>>, head |-> 0, kids |-> <<393, 394, 396>>, body |-> <<>>, hasargs |-> FALSE],  \* 397: [a | b,e,c | ]
     [file |-> "m.erl", kind |-> "atom", name |-> "b", val |-> 0, chars |-> <<>>, head |-> 0, kids |-> <<>>, body |-> <<>>, hasargs |-> FALSE],  \* 398: b
     [file |-> "m.erl", kind |-> "pipe", name |-> "", val |-> 0, chars |-> <<>>, head |-> 0, kids |-> <<0, 398>>, body |-> <<>>, hasargs |-> FALSE],  \* 399:  | b
     [file |-> "m.erl", kind |-> "atom", name |-> "c", val |-> 0, chars |-> <<>>, head |-> 0, kids |-> <<>>, body |-> <<>>, hasargs |-> FALSE],  \* 400: c
     [file |-> "m.erl", kind |-> "atom", name |-> "d", val |-> 0, chars |-> <<>>, head |-> 0, kids |-> <<>>, body |-> <<>>, hasargs |-> FALSE],  \* 401: d
     [file |-> "m.erl", kind |-> "pipe", name |-> "", val |-> 0, chars |-> <<>>, head |-> 0, kids |-> <<400, 401>>, body |-> <<>>, hasargs |-> FALSE],  \* 402: c | d
     [file |-> "m.erl", kind |-> "list", name |-> "", val |-> 0, chars |-> <<>>, head |-> 0, kids |-> <<399, 402>>, body |-> <<>>, hasargs |-> FALSE],  \* 403: [ | b,c | d]
     [file |-> "m.erl", kind |-> "clause", name |-> "", val |-> 0, chars |-> <<>>, head |-> 0, kids |-> <<403>>, body |-> <<397>>, hasargs |-> FALSE],  \* 404: f([ | b,c | d]) -> [a | b,e,c | ]
     [file |-> "m.erl", kind |-> "atom", name |-> "a", val |-> 0, chars |-> <<>>, head |-> 0, kids |-> <<>>, body |-> <<>>, hasargs |-> FALSE],  \* 405: a
     [file |-> "m.erl", kind |-> "atom", name |-> "b", val |-> 0, chars |-> <<>>, head |-> 0, kids |-> <<>>, body |-> <<>>, hasargs |-> FALSE],  \* 406: b
     [file |-> "m.erl", kind |-> "pipe", name |-> "", val |-> 0, chars |-> <<>>, head |-> 0, kids |-> <<405, 406>>, body |-> <<>>, hasargs |-> FALSE],  \* 407: a | b
     [file |-> "m.erl", kind |-> "atom", name |-> "c", val |-> 0, chars |-> <<>>, head |-> 0, kids |-> <<>>, body |-> <<>>, hasargs |-> FALSE],  \* 408: c
     [file |-> "m.erl", kind |-> "atom", name |-> "d", val |-> 0, chars |-> <<>>, head |-> 0, kids |-> <<>>, body |-> <<>>, hasargs |-> FALSE],  \* 409: d
     [file |-> "m.erl", kind |-> "pipe", name |-> "", val |-> 0, chars |-> <<>>, head |-> 0, kids |-> <<408, 409>>, body |-> <<>>, hasargs |-> FALSE],  \* 410: c | d
     [file |-> "m.erl", kind |-> "atom", name |-> "e", val |-> 0, chars |-> <<>>, head |-> 0, kids |-> <<>>, body |-> <<>>, hasargs |-> FALSE],  \* 411: e
     [file |-> "m.erl", kind |-> "list", name |-> "", val |-> 0, chars |-> <<>>, head |-> 0, kids |-> <<407, 410, 411>>, body |-> <<>>, hasargs |-> FALSE],  \* 412: [a | b,c | d,e]
     [file |-> "m.erl", kind |-> "atom", name |-> "a", val |-> 0, chars |-> <<>>, head |-> 0, kids |-> <<>>, body |-> <<>>, hasargs |-> FALSE],  \* 413: a
     [file |-> "m.erl", kind |-> "atom", name |-> "b", val |-> 0, chars |-> <<>>, head |-> 0, kids |-> <<>>, body |-> <<>>, hasargs |-> FALSE],  \* 414: b
     [file |-> "m.erl", kind |-> "list", name |-> "", val |-> 0, chars |-> <<>>, head |-> 0, kids |-> <<413, 414>>, body |-> <<>>, hasargs |-> FALSE],  \* 415: [a,b]
     [file |-> "h.hrl", kind |-> "macro", name |-> "MODULE", val |-> 0, chars |-> <<>>, head |-> 0, kids |-> <<>>, body |-> <<>>, hasargs |-> FALSE],  \* 416: ?MODULE
     [file |-> "h.hrl", kind |-> "macro", name |-> "FILE", val |-> 0, chars |-> <<>>, head |-> 0, kids |-> <<>>, body |-> <<>>, hasargs |-> FALSE],  \* 417: ?FILE
     [file |-> "h.hrl", kind |-> "macro", name |-> "MODULE_STRING", val |-> 0, chars |-> <<>>, head |-> 0, kids |-> <<>>, body |-> <<>>, hasargs |-> FALSE],  \* 418: ?MODULE_STRING
     [file |-> "h.hrl", kind |-> "macro", name |-> "FUNCTION_NAME", val |-> 0, chars |-> <<>>, head |-> 0, kids |-> <<>>, body |-> <<>>, hasargs |-> FALSE],  \* 419: ?FUNCTION_NAME
     [file |-> "h.hrl", kind |-> "macro", name |-> "FUNCTION_ARITY", val |-> 0, chars |-> <<>>, head |-> 0, kids |-> <<>>, body |-> <<>>, hasargs |-> FALSE],  \* 420: ?FUNCTION_ARITY
     [file |-> "h.hrl", kind |-> "macro", name |-> "LINE", val |-> 0, chars |-> <<>>, head |-> 0, kids |-> <<>>, body |-> <<>>, hasargs |-> FALSE],  \* 421: ?LINE
     [file |-> "h.hrl", kind |-> "macro", name |-> "OTP_RELEASE", val |-> 0, chars |-> <<>>, head |-> 0, kids |-> <<>>, body |-> <<>>, hasargs |-> FALSE],  \* 422: ?OTP_RELEASE
     [file |-> "h.hrl", kind |-> "tuple", name |-> "", val |-> 0, chars |-> <<>>, head |-> 0, kids |-> <<416, 417, 418, 419, 420, 421, 422>>, body |-> <<>>, hasargs |-> FALSE],  \* 423: {?MODULE,?FILE,?MODULE_STRING,?FUNCTION_NAME,?FUNCTION_ARITY,?LINE,?OTP_RELEASE}
     [file |-> "h.hrl", kind |-> "macro", name |-> "MOD", val |-> 0, chars |-> <<>>, head |-> 0, kids |-> <<>>, body |-> <<>>, hasargs |-> FALSE],  \* 424: ?MOD
     [file |-> "h.hrl", kind |-> "tuple", name |-> "", val |-> 0, chars |-> <<>>, head |-> 0, kids |-> <<424>>, body |-> <<>>, hasargs |-> FALSE],  \* 425: {?MOD}
     [file |-> "m.erl", kind |-> "macro", name |-> "MOD2", val |-> 0, chars |-> <<>>, head |-> 0, kids |-> <<>>, body |-> <<>>, hasargs |-> FALSE],  \* 426: ?MOD2
     [file |-> "m.erl", kind |-> "macro", name |-> "OTP_RELEASE", val |-> 0, chars |-> <<>>, head |-> 0, kids |-> <<>>, body |-> <<>>, hasargs |-> FALSE],  \* 427: ?OTP_RELEASE
     [file |-> "m.erl", kind |-> "var", name |-> "X", val |-> 0, chars |-> <<>>, head |-> 0, kids |-> <<>>, body |-> <<>>, hasargs |-> FALSE],  \* 428: X
     [file |-> "m.erl", kind |-> "macro", name |-> "MOD", val |-> 0, chars |-> <<>>, head |-> 0, kids |-> <<>>, body |-> <<>>, hasargs |-> FALSE],  \* 429: ?MOD
     [file |-> "m.erl", kind |-> "clause", name |-> "", val |-> 0, chars |-> <<>>, head |-> 0, kids |-> <<428, 429>>, body |-> <<426, 427>>, hasargs |-> FALSE],  \* 430: f(X,?MOD) -> ?MOD2,?OTP_RELEASE
     [file |-> "m.erl", kind |-> "macro", name |-> "MOD", val |-> 0, chars |-> <<>>, head |-> 0, kids |-> <<>>, body |-> <<>>, hasargs |-> FALSE],  \* 431: ?MOD
     [file |-> "m.erl", kind |-> "macro", name |-> "FILE", val |-> 0, chars |-> <<>>, head |-> 0, kids |-> <<>>, body |-> <<>>, hasargs |-> FALSE],  \* 432: ?FILE
     [file |-> "m.erl", kind |-> "macro", name |-> "OTP_RELEASE", val |-> 0, chars |-> <<>>, head |-> 0, kids |-> <<>>, body |-> <<>>, hasargs |-> FALSE],  \* 433: ?OTP_RELEASE
     [file |-> "m.erl", kind |-> "tuple", name |-> "", val |-> 0, chars |-> <<>>, head |-> 0, kids |-> <<431, 432, 433>>, body |-> <<>>, hasargs |-> FALSE],  \* 434: {?MOD,?FILE,?OTP_RELEASE}
     [file |-> "m.erl", kind |-> "macro", name |-> "MOD", val |-> 0, chars |-> <<>>, head |-> 0, kids |-> <<>>, body |-> <<>>, hasargs |-> FALSE],  \* 435: ?MOD
     [file |-> "m.erl", kind |-> "macro", name |-> "MODULE_STRING", val |-> 0, chars |-> <<>>, head |-> 0, kids |-> <<>>, body |-> <<>>, hasargs |-> FALSE],  \* 436: ?MODULE_STRING
     [file |-> "m.erl", kind |-> "tuple", name |-> "", val |-> 0, chars |-> <<>>, head |-> 0, kids |-> <<435, 436>>, body |-> <<>>, hasargs |-> FALSE],  \* 437: {?MOD,?MODULE_STRING}
     [file |-> "h.hrl", kind |-> "var", name |-> "X", val |-> 0, chars |-> <<>>, head |-> 0, kids |-> <<>>, body |-> <<>>, hasargs |-> FALSE],  \* 438: X
     [file |-> "h.hrl", kind |-> "macro", name |-> "G", val |-> 0, chars |-> <<>>, head |-> 0, kids |-> <<438>>, body |-> <<>>, hasargs |-> TRUE],  \* 439: ?G(X)
     [file |-> "m.erl", kind |-> "atom", name |-> "a", val |-> 0, chars |-> <<>>, head |-> 0, kids |-> <<>>, body |-> <<>>, hasargs |-> FALSE],  \* 440: a
     [file |-> "m.erl", kind |-> "macro", name |-> "W", val |-> 0, chars |-> <<>>, head |-> 0, kids |-> <<440>>, body |-> <<>>, hasargs |-> TRUE],  \* 441: ?W(a)
     [file |-> "m.erl", kind |-> "macro", name |-> "G", val |-> 0, chars |-> <<>>, head |-> 0, kids |-> <<>>, body |-> <<>>, hasargs |-> FALSE],  \* 442: ?G
     [file |-> "m.erl", kind |-> "macro", name |-> "G", val |-> 0, chars |-> <<>>, head |-> 0, kids |-> <<442>>, body |-> <<>>, hasargs |-> TRUE],  \* 443: ?G(?G)
     [file |-> "m.erl", kind |-> "clause", name |-> "", val |-> 0, chars |-> <<>>, head |-> 0, kids |-> <<>>, body |-> <<441, 443>>, hasargs |-> FALSE],  \* 444: f() -> ?W(a),?G(?G)
     [file |-> "m.erl", kind |-> "atom", name |-> "a", val |-> 0, chars |-> <<>>, head |-> 0, kids |-> <<>>, body |-> <<>>, hasargs |-> FALSE],  \* 445: a
     [file |-> "m.erl", kind |-> "macro", name |-> "W", val |-> 0, chars |-> <<>>, head |-> 0, kids |-> <<445>>, body |-> <<>>, hasargs |-> TRUE],  \* 446: ?W(a)
     [file |-> "h.hrl", kind |-> "var", name |-> "X", val |-> 0, chars |-> <<>>, head |-> 0, kids |-> <<>>, body |-> <<>>, hasargs |-> FALSE],  \* 447: X
     [file |-> "h.hrl", kind |-> "macro", name |-> "R", val |-> 0, chars |-> <<>>, head |-> 0, kids |-> <<447>>, body |-> <<>>, hasargs |-> TRUE],  \* 448: ?R(X)
     [file |-> "h.hrl", kind |-> "var", name |-> "X", val |-> 0, chars |-> <<>>, head |-> 0, kids |-> <<>>, body |-> <<>>, hasargs |-> FALSE],  \* 449: X
     [file |-> "h.hrl", kind |-> "atom", name |-> "b", val |-> 0, chars |-> <<>>, head |-> 0, kids |-> <<>>, body |-> <<>>, hasargs |-> FALSE],  \* 450: b
     [file |-> "h.hrl", kind |-> "macro", name |-> "UNDEF", val |-> 0, chars |-> <<>>, head |-> 0, kids |-> <<449, 450>>, body |-> <<>>, hasargs |-> TRUE],  \* 451: ?UNDEF(X,b)
     [file |-> "h.hrl", kind |-> "tuple", name |-> "", val |-> 0, chars |-> <<>>, head |-> 0, kids |-> <<448, 451>>, body |-> <<>>, hasargs |-> FALSE],  \* 452: {?R(X),?UNDEF(X,b)}
     [file |-> "m.erl", kind |-> "atom", name |-> "a", val |-> 0, chars |-> <<>>, head |-> 0, kids |-> <<>>, body |-> <<>>, hasargs |-> FALSE],  \* 453: a
     [file |-> "m.erl", kind |-> "macro", name |-> "R", val |-> 0, chars |-> <<>>, head |-> 0, kids |-> <<453>>, body |-> <<>>, hasargs |-> TRUE],  \* 454: ?R(a)
     [file |-> "m.erl", kind |-> "var", name |-> "P", val |-> 0, chars |-> <<>>, head |-> 0, kids |-> <<>>, body |-> <<>>, hasargs |-> FALSE],  \* 455: P
     [file |-> "m.erl", kind |-> "macro", name |-> "R", val |-> 0, chars |-> <<>>, head |-> 0, kids |-> <<455>>, body |-> <<>>, hasargs |-> TRUE],  \* 456: ?R(P)
     [file |-> "m.erl", kind |-> "clause", name |-> "", val |-> 0, chars |-> <<>>, head |-> 0, kids |-> <<456>>, body |-> <<454>>, hasargs |-> FALSE]  \* 457: f(?R(P)) -> ?R(a)
  >>

DefPool ==
  <<
     [file |-> "h.hrl", name |-> [name |-> "PAIR", arity |-> <<2>>], params |-> <<"X", "Y">>, rkind |-> "expr", rnode |-> 3, rclauses |-> <<>>],  \* 1: -define(PAIR(X,Y), {Y,X}).
     [file |-> "h.hrl", name |-> [name |-> "ID", arity |-> <<1>>], params |-> <<"X">>, rkind |-> "expr", rnode |-> 4, rclauses |-> <<>>],  \* 2: -define(ID(X), X).
     [file |-> "h.hrl", name |-> [name |-> "WRAP", arity |-> <<1>>], params |-> <<"X">>, rkind |-> "expr", rnode |-> 8, rclauses |-> <<>>],  \* 3: -define(WRAP(X), {?ID(X),X}).
     [file |-> "h.hrl", name |-> [name |-> "M", arity |-> <<>>], params |-> <<>>, rkind |-> "expr", rnode |-> 11, rclauses |-> <<>>],  \* 4: -define(M, {?N,m}).
     [file |-> "h.hrl", name |-> [name |-> "G", arity |-> <<>>], params |-> <<>>, rkind |-> "expr", rnode |-> 12, rclauses |-> <<>>],  \* 5: -define(G, foo).
     [file |-> "h.hrl", name |-> [name |-> "G2", arity |-> <<>>], params |-> <<>>, rkind |-> "expr", rnode |-> 13, rclauses |-> <<>>],  \* 6: -define(G2, ?G).
     [file |-> "h.hrl", name |-> [name |-> "CL", arity |-> <<>>], params |-> <<>>, rkind |-> "fclauses", rnode |-> 0, rclauses |-> <<16, 17>>],  \* 7: -define(CL, f(b) -> 2; ?CL2).
     [file |-> "h.hrl", name |-> [name |-> "CL2", arity |-> <<>>], params |-> <<>>, rkind |-> "fclauses", rnode |-> 0, rclauses |-> <<20>>],  \* 8: -define(CL2, f(d) -> ?LINE).
     [file |-> "h.hrl", name |-> [name |-> "ARMS", arity |-> <<>>], params |-> <<>>, rkind |-> "crclauses", rnode |-> 0, rclauses |-> <<23, 24, 27>>],  \* 9: -define(ARMS, b -> 2; ?ARMS; Z -> 3).
     [file |-> "h.hrl", name |-> [name |-> "NOREPL", arity |-> <<>>], params |-> <<>>, rkind |-> "none", rnode |-> 0, rclauses |-> <<>>],  \* 10: -define(NOREPL, ).
     [file |-> "m.erl", name |-> [name |-> "N", arity |-> <<>>], params |-> <<>>, rkind |-> "expr", rnode |-> 28, rclauses |-> <<>>],  \* 11: -define(N, ok).
     [file |-> "h.hrl", name |-> [name |-> "A", arity |-> <<>>], params |-> <<>>, rkind |-> "expr", rnode |-> 29, rclauses |-> <<>>],  \* 12: -define(A, ?A).
     [file |-> "h.hrl", name |-> [name |-> "A", arity |-> <<>>], params |-> <<>>, rkind |-> "expr", rnode |-> 30, rclauses |-> <<>>],  \* 13: -define(A, ?B).
     [file |-> "h.hrl", name |-> [name |-> "B", arity |-> <<>>], params |-> <<>>, rkind |-> "expr", rnode |-> 32, rclauses |-> <<>>],  \* 14: -define(B, {?A}).
     [file |-> "h.hrl", name |-> [name |-> "A", arity |-> <<>>], params |-> <<>>, rkind |-> "expr", rnode |-> 34, rclauses |-> <<>>],  \* 15: -define(A, ?A(1)).
     [file |-> "h.hrl", name |-> [name |-> "A", arity |-> <<>>], params |-> <<>>, rkind |-> "expr", rnode |-> 37, rclauses |-> <<>>],  \* 16: -define(A, {?A(1)}).
     [file |-> "h.hrl", name |-> [name |-> "A", arity |-> <<>>], params |-> <<>>, rkind |-> "expr", rnode |-> 38, rclauses |-> <<>>],  \* 17: -define(A, a).
     [file |-> "h.hrl", name |-> [name |-> "LIT", arity |-> <<1>>], params |-> <<"B">>, rkind |-> "expr", rnode |-> 185, rclauses |-> <<>>],  \* 18: -define(LIT(B), {a,B}).
     [file |-> "h.hrl", name |-> [name |-> "SEG", arity |-> <<1>>], params |-> <<"X">>, rkind |-> "expr", rnode |-> 190, rclauses |-> <<>>],  \* 19: -define(SEG(X), <<X,2>>).
     [file |-> "h.hrl", name |-> [name |-> "T", arity |-> <<>>], params |-> <<>>, rkind |-> "expr", rnode |-> 191, rclauses |-> <<>>],  \* 20: -define(T, integer).
     [file |-> "h.hrl", name |-> [name |-> "MOD", arity |-> <<>>], params |-> <<>>, rkind |-> "expr", rnode |-> 423, rclauses |-> <<>>],  \* 21: -define(MOD, {?MODULE,?FILE,?MODULE_STRING,?FUNCTION_NAME,?FUNCTION_ARITY,?LINE,?OTP_RELEASE}).
     [file |-> "h.hrl", name |-> [name |-> "MOD2", arity |-> <<>>], params |-> <<>>, rkind |-> "expr", rnode |-> 425, rclauses |-> <<>>],  \* 22: -define(MOD2, {?MOD}).
     [file |-> "h.hrl", name |-> [name |-> "W", arity |-> <<1>>], params |-> <<"X">>, rkind |-> "expr", rnode |-> 439, rclauses |-> <<>>],  \* 23: -define(W(X), ?G(X)).
     [file |-> "h.hrl", name |-> [name |-> "R", arity |-> <<1>>], params |-> <<"X">>, rkind |-> "expr", rnode |-> 452, rclauses |-> <<>>]  \* 24: -define(R(X), {?R(X),?UNDEF(X,b)}).
  >>

UnitPool ==
  <<
     [entry |-> "function", root |-> 0, clauses |-> <<43>>, sigs |-> <<>>, fields |-> <<>>],  \* 1: f(X) -> {X,a}
     [entry |-> "function", root |-> 0, clauses |-> <<49>>, sigs |-> <<>>, fields |-> <<>>],  \* 2: f() -> ?PAIR(foo(),bar())
     [entry |-> "function", root |-> 0, clauses |-> <<51>>, sigs |-> <<>>, fields |-> <<>>],  \* 3: f() -> ?A
     [entry |-> "function", root |-> 0, clauses |-> <<55>>, sigs |-> <<>>, fields |-> <<>>],  \* 4: f() -> ?WRAP(?ID(b))
     [entry |-> "function", root |-> 0, clauses |-> <<57>>, sigs |-> <<>>, fields |-> <<>>],  \* 5: f() -> ?M
     [entry |-> "function", root |-> 0, clauses |-> <<60>>, sigs |-> <<>>, fields |-> <<>>],  \* 6: f() -> ?G(1)
     [entry |-> "function", root |-> 0, clauses |-> <<63>>, sigs |-> <<>>, fields |-> <<>>],  \* 7: f() -> ?G2(1)
     [entry |-> "function", root |-> 0, clauses |-> <<66, 68>>, sigs |-> <<>>, fields |-> <<>>],  \* 8: f() -> ?UNDEF(u); f() -> ?UNDEF
     [entry |-> "function", root |-> 0, clauses |-> <<71, 72, 75>>, sigs |-> <<>>, fields |-> <<>>],  \* 9: f(a) -> 1; ?CL; f(c) -> 3
     [entry |-> "function", root |-> 0, clauses |-> <<76, 78, 79, 80, 81, 82, 84>>, sigs |-> <<>>, fields |-> <<>>],  \* 10: ?G; ?G(1); ?UNDEF; ?LINE; ?ARMS; ?NOREPL; ?CL(1)
     [entry |-> "function", root |-> 0, clauses |-> <<97>>, sigs |-> <<>>, fields |-> <<>>],  \* 11: f(X) -> case X of a -> 1; ?ARMS; ?CL; ?G(1); ?ARMS(1) end
     [entry |-> "function", root |-> 0, clauses |-> <<102>>, sigs |-> <<>>, fields |-> <<>>],  \* 12: f(?PAIR(a,B)) -> ok
     [entry |-> "function", root |-> 0, clauses |-> <<108>>, sigs |-> <<>>, fields |-> <<>>],  \* 13: f(?G(1),?MODULE,?A) -> ok
     [entry |-> "function", root |-> 0, clauses |-> <<116>>, sigs |-> <<>>, fields |-> <<>>],  \* 14: f((P),catch c) -> (a),()
     [entry |-> "function", root |-> 0, clauses |-> <<121>>, sigs |-> <<>>, fields |-> <<>>],  \* 15: f() -> ?MODULE(1),?FUNCTION_NAME,?NOREPL
     [entry |-> "function", root |-> 0, clauses |-> <<132>>, sigs |-> <<>>, fields |-> <<>>],  \* 16: f() -> ?G(?A),?UNDEF(u)(),(?G(1))()
     [entry |-> "function", root |-> 0, clauses |-> <<135>>, sigs |-> <<>>, fields |-> <<>>],  \* 17: f() -> ?ID(_absent_),catch _absent_
     [entry |-> "define", root |-> 138, clauses |-> <<>>, sigs |-> <<>>, fields |-> <<>>],  \* 18: {?LINE,?FUNCTION_NAME}
     [entry |-> "define", root |-> 140, clauses |-> <<>>, sigs |-> <<>>, fields |-> <<>>],  \* 19: ?FUNCTION_NAME(1)
     [entry |-> "attribute", root |-> 145, clauses |-> <<>>, sigs |-> <<>>, fields |-> <<>>],  \* 20: {a,?MODULE,?ID(7)}
     [entry |-> "attribute", root |-> 146, clauses |-> <<>>, sigs |-> <<>>, fields |-> <<>>],  \* 21: ?A
     [entry |-> "attribute", root |-> 0, clauses |-> <<>>, sigs |-> <<>>, fields |-> <<>>],  \* 22: _absent_
     [entry |-> "compile", root |-> 154, clauses |-> <<>>, sigs |-> <<>>, fields |-> <<>>],  \* 23: {catch a,V,?G(1),case a of  end}
     [entry |-> "type_alias", root |-> 159, clauses |-> <<>>, sigs |-> <<>>, fields |-> <<>>],  \* 24: {a,?ID(b),T}
     [entry |-> "opaque", root |-> 168, clauses |-> <<>>, sigs |-> <<>>, fields |-> <<>>],  \* 25: {(catch a),?G(1),?A,case a of  end}
     [entry |-> "spec", root |-> 0, clauses |-> <<>>, sigs |-> <<[args |-> <<169, 170>>, ty |-> 172], [args |-> <<>>, ty |-> 0]>>, fields |-> <<>>],  \* 26: (a,?M) -> ?ID(b); () -> _absent_
     [entry |-> "callback", root |-> 0, clauses |-> <<>>, sigs |-> <<[args |-> <<175>>, ty |-> 177]>>, fields |-> <<>>],  \* 27: (?G(t)) -> ?MODULE(1)
     [entry |-> "record", root |-> 0, clauses |-> <<>>, sigs |-> <<>>, fields |-> <<[expr |-> 179, ty |-> 181], [expr |-> 0, ty |-> 0], [expr |-> 182, ty |-> 0]>>],  \* 28: f = ?ID(a) :: ?ID(b), f = _absent_ :: _absent_, f = ?A :: _absent_
     [entry |-> "attribute", root |-> 210, clauses |-> <<>>, sigs |-> <<>>, fields |-> <<>>],  \* 29: {<<1,2,3>>,<<>>,<<"a<300>",$c,300,-1>>}
     [entry |-> "attribute", root |-> 231, clauses |-> <<>>, sigs |-> <<>>, fields |-> <<>>],  \* 30: {<<1:16>>,<<1,a,2>>,<<1/integer>>,<<1/unit:8>>}
     [entry |-> "attribute", root |-> 243, clauses |-> <<>>, sigs |-> <<>>, fields |-> <<>>],  \* 31: {?SEG(7),?SEG(V),<<?LINE>>,<<(2)>>}
     [entry |-> "attribute", root |-> 247, clauses |-> <<>>, sigs |-> <<>>, fields |-> <<>>],  \* 32: <<1/?T>>
     [entry |-> "attribute", root |-> 252, clauses |-> <<>>, sigs |-> <<>>, fields |-> <<>>],  \* 33: <<1/unit:?UNDEF>>
     [entry |-> "function", root |-> 0, clauses |-> <<269>>, sigs |-> <<>>, fields |-> <<>>],  \* 34: f(<<X:8/integer-unit:1,R/binary>>) -> <<1,X:8>>
     [entry |-> "type_alias", root |-> 272, clauses |-> <<>>, sigs |-> <<>>, fields |-> <<>>],  \* 35: <<1>>
     [entry |-> "attribute", root |-> 282, clauses |-> <<>>, sigs |-> <<>>, fields |-> <<>>],  \* 36: {-1,+2,--3,not 1}
     [entry |-> "attribute", root |-> 294, clauses |-> <<>>, sigs |-> <<>>, fields |-> <<>>],  \* 37: {-a,-"s",-{1},-V,+V}
     [entry |-> "attribute", root |-> 296, clauses |-> <<>>, sigs |-> <<>>, fields |-> <<>>],  \* 38: +a
     [entry |-> "attribute", root |-> 305, clauses |-> <<>>, sigs |-> <<>>, fields |-> <<>>],  \* 39: {+"s",+{1},+[1]}
     [entry |-> "function", root |-> 0, clauses |-> <<310>>, sigs |-> <<>>, fields |-> <<>>],  \* 40: f(-1) -> -X
     [entry |-> "type_alias", root |-> 312, clauses |-> <<>>, sigs |-> <<>>, fields |-> <<>>],  \* 41: -1
     [entry |-> "function", root |-> 0, clauses |-> <<327>>, sigs |-> <<>>, fields |-> <<>>],  \* 42: f(#{a := X, b => Y}) -> #{a := 1, b => 2}
     [entry |-> "function", root |-> 0, clauses |-> <<343>>, sigs |-> <<>>, fields |-> <<>>],  \* 43: f(#{a := 1},#{a => 1}) -> #{a => 1, b => _absent_},#{}
     [entry |-> "attribute", root |-> 350, clauses |-> <<>>, sigs |-> <<>>, fields |-> <<>>],  \* 44: #{a => 1, b := 2}
     [entry |-> "type_alias", root |-> 357, clauses |-> <<>>, sigs |-> <<>>, fields |-> <<>>],  \* 45: #{a := b, c => d}
     [entry |-> "function", root |-> 0, clauses |-> <<364>>, sigs |-> <<>>, fields |-> <<>>],  \* 46: f({a,B}) -> {a,B}
     [entry |-> "attribute", root |-> 367, clauses |-> <<>>, sigs |-> <<>>, fields |-> <<>>],  \* 47: {a,B}
     [entry |-> "attribute", root |-> 369, clauses |-> <<>>, sigs |-> <<>>, fields |-> <<>>],  \* 48: ?LIT(1)
     [entry |-> "attribute", root |-> 371, clauses |-> <<>>, sigs |-> <<>>, fields |-> <<>>],  \* 49: ?LIT(C)
     [entry |-> "function", root |-> 0, clauses |-> <<382>>, sigs |-> <<>>, fields |-> <<>>],  \* 50: f([a | T]) -> [a,b | c],[]
     [entry |-> "function", root |-> 0, clauses |-> <<390>>, sigs |-> <<>>, fields |-> <<>>],  \* 51: f() -> [a | b,c | d]
     [entry |-> "function", root |-> 0, clauses |-> <<404>>, sigs |-> <<>>, fields |-> <<>>],  \* 52: f([ | b,c | d]) -> [a | b,e,c | ]
     [entry |-> "attribute", root |-> 412, clauses |-> <<>>, sigs |-> <<>>, fields |-> <<>>],  \* 53: [a | b,c | d,e]
     [entry |-> "type_alias", root |-> 415, clauses |-> <<>>, sigs |-> <<>>, fields |-> <<>>],  \* 54: [a,b]
     [entry |-> "function", root |-> 0, clauses |-> <<430>>, sigs |-> <<>>, fields |-> <<>>],  \* 55: f(X,?MOD) -> ?MOD2,?OTP_RELEASE
     [entry |-> "attribute", root |-> 434, clauses |-> <<>>, sigs |-> <<>>, fields |-> <<>>],  \* 56: {?MOD,?FILE,?OTP_RELEASE}
     [entry |-> "type_alias", root |-> 437, clauses |-> <<>>, sigs |-> <<>>, fields |-> <<>>],  \* 57: {?MOD,?MODULE_STRING}
     [entry |-> "function", root |-> 0, clauses |-> <<444>>, sigs |-> <<>>, fields |-> <<>>],  \* 58: f() -> ?W(a),?G(?G)
     [entry |-> "type_alias", root |-> 446, clauses |-> <<>>, sigs |-> <<>>, fields |-> <<>>],  \* 59: ?W(a)
     [entry |-> "function", root |-> 0, clauses |-> <<457>>, sigs |-> <<>>, fields |-> <<>>]  \* 60: f(?R(P)) -> ?R(a)
  >>

(***************************************************************************)
(* State.                                                                  *)
(***************************************************************************)
VARIABLES
  tree,             \* the parsed syntax: the nodes, the macro definitions and the units to lower
  db,               \* database contents read by the lowering (macro definitions in scope, module attribute)
  unit,             \* index in Units of the syntactic unit being lowered
  original_file_id, \* Ctx.original_file_id
  macro_stack,      \* Ctx.macro_stack : Vec<MacroStackEntry>
  macro_stack_id,   \* Ctx.macro_stack_id (index into macro_stack, from 0)
  function_info,    \* Ctx.function_info : Option<(Atom, u32)>
  body,             \* Ctx.body : the four arenas
  source_map,       \* Ctx.source_map : BodySourceMap
  work,             \* pending calls and continuations of the recursive descent
  vals,             \* values returned by the finished calls
  pc,               \* "lowering", "finished", "panic" (an assertion of finish failed), "overflow"
  hist              \* history of the run (what was looked up, expanded, substituted), read by the properties only

lowervars == <<tree, db, unit, original_file_id, macro_stack, macro_stack_id, function_info,
               body, source_map, work, vals, pc, hist>>

\* The syntax is read through these three names.
Ast == tree.ast
Defs == tree.defs
Units == tree.units

None == <<>>
Some(x) == <<x>>

Modes == {"expr", "pat", "type", "term"}

RECURSIVE Flatten(_)
Flatten(ss) == IF ss = <<>> THEN <<>> ELSE Head(ss) \o Flatten(Tail(ss))

Last(s) == s[Len(s)]
Front(s) == SubSeq(s, 1, Len(s) - 1)
Min(a, b) == IF a < b THEN a ELSE b

\* HashMap::insert on a map kept as a set of <<key, value>> pairs.
Insert(m, key, value) == {p \in m : p[1] # key} \cup {<<key, value>>}
Get(m, key) == {p[2] : p \in {r \in m : r[1] = key}}

(***************************************************************************)
(* The database as the lowering reads it.                                  *)
(***************************************************************************)
\* Which definition of macro A the header holds.
AVariants == {"absent", "plain", "self", "mutual", "retry", "nested_retry"}

ADef(variant) ==
  CASE variant = "absent"       -> {}
    [] variant = "plain"        -> {17}
    [] variant = "self"         -> {12}
    [] variant = "mutual"       -> {13, 14}
    [] variant = "retry"        -> {15}
    [] variant = "nested_retry" -> {16}

Databases ==
  { [defs |-> (1..11) \cup (18..24) \cup ADef(v), module |-> m] :
      v \in AVariants, m \in {None, Some("m")} }

\* m.erl includes h.hrl; h.hrl includes nothing.
FileSees(file) == IF file = "m.erl" THEN {"m.erl", "h.hrl"} ELSE {file}

BuiltInNames == {"FILE", "FUNCTION_NAME", "FUNCTION_ARITY", "LINE", "MODULE",
                 "MODULE_STRING", "MACHINE", "OTP_RELEASE"}

NoMacro == [tag |-> "None", def |-> 0, built_in |-> ""]

\* db.resolve_macro(file_id, name) : Option<ResolvedMacro>
db_resolve_macro(file_id, name) ==
  LET found == {d \in db.defs : Defs[d].name = name /\ Defs[d].file \in FileSees(file_id)}
  IN  IF found # {}
        THEN [tag |-> "User", def |-> CHOOSE d \in found : TRUE, built_in |-> ""]
      ELSE IF name.arity = None /\ name.name \in BuiltInNames
        THEN [tag |-> "BuiltIn", def |-> 0, built_in |-> name.name]
      ELSE NoMacro

\* macro_exp::macro_name(call)
macro_name(call) ==
  [name |-> Ast[call].name,
   arity |-> IF Ast[call].hasargs THEN Some(Len(Ast[call].kids)) ELSE None]

\* Literal values.  The string of a builtin is kept as the sequence of the
\* pieces it was built from, so that format!("{}.erl", name) differs from
\* name; the string of a string token is the sequence of its code points.
LitAtom(s) == [t |-> "Atom", s |-> <<s>>, i |-> 0]
LitInteger(i) == [t |-> "Integer", s |-> <<>>, i |-> i]
LitString(pieces) == [t |-> "String", s |-> pieces, i |-> 0]
LitChar(c) == [t |-> "Char", s |-> <<>>, i |-> c]

\* Literal::negate : Option<Literal>, the numerals being the integers
negate(lit) == IF lit.t = "Integer" THEN Some(LitInteger(-lit.i)) ELSE None

(***************************************************************************)
(* Macro frames.                                                           *)
(***************************************************************************)
\* MacroStackEntry
MacroStackEntry(name, file_id, var_map, parent_id) ==
  [name |-> name, file_id |-> file_id, var_map |-> var_map, parent_id |-> parent_id]

\* The frame Ctx::new starts with.
Sentinel(file_id) ==
  MacroStackEntry([name |-> "[missing]", arity |-> None], file_id, {}, 0)

\* Ctx::curr_file_id
curr_file_id == macro_stack[macro_stack_id + 1].file_id

\* Ctx::macro_stack : the current frame, then its ancestors up to (not
\* including) the frame whose parent index is 0.
RECURSIVE ChainFrom(_, _)
ChainFrom(stack, id) ==
  LET entry == stack[id + 1]
  IN  <<entry>> \o (IF entry.parent_id # 0 THEN ChainFrom(stack, entry.parent_id) ELSE <<>>)

active_chain == ChainFrom(macro_stack, macro_stack_id)

\* The zip of the definition's parameters with the call's arguments, collected
\* into a map (a later pair replaces an earlier one with the same key).
RECURSIVE ZipInsert(_, _, _)
ZipInsert(params, args, m) ==
  IF params = <<>> \/ args = <<>> THEN m
  ELSE ZipInsert(Tail(params), Tail(args), Insert(m, Head(params), Head(args)))

var_map_of(def, args) == IF args = None THEN {} ELSE ZipInsert(Defs[def].params, args[1], {})

\* db.file_form_list(file_id).module_attribute(), as the name it carries: the
\* header has a module attribute of its own.
module_attribute(file_id) == IF file_id = "m.erl" THEN db.module ELSE Some("h")

\* A faulty choice of the form list: that of the file the call is written in.
FormListFileCurrent == macro_stack[macro_stack_id + 1].file_id

\* The file whose form list lower_built_in_macro reads.
FormListFile == original_file_id

\* Ctx::lower_built_in_macro : Option<Literal>
lower_built_in_macro(built_in) ==
  CASE built_in = "FILE" ->
         IF module_attribute(FormListFile) = None THEN None
         ELSE Some(LitString(<<module_attribute(FormListFile)[1], ".erl">>))
    [] built_in = "FUNCTION_NAME" ->
         IF function_info = None THEN None ELSE Some(LitAtom(function_info[1].name))
    [] built_in = "FUNCTION_ARITY" ->
         IF function_info = None THEN None ELSE Some(LitInteger(function_info[1].arity))
    [] built_in = "LINE" -> Some(LitInteger(0))
    [] built_in = "MODULE" ->
         IF module_attribute(FormListFile) = None THEN None
         ELSE Some(LitAtom(module_attribute(FormListFile)[1]))
    [] built_in = "MODULE_STRING" ->
         IF module_attribute(FormListFile) = None THEN None
         ELSE Some(LitString(<<module_attribute(FormListFile)[1]>>))
    [] built_in = "MACHINE" -> Some(LitAtom("ELP"))
    [] built_in = "OTP_RELEASE" -> Some(LitInteger(2000))

(***************************************************************************)
(* Pending work.  A task is one call of a lowering function or the rest of  *)
(* one (what it does after a callee returns).                               *)
(*   op   : which function / continuation                                   *)
(*   mode : the arena it works on                                           *)
(*   n    : the syntax node it is about (0: none)                           *)
(*   k    : how many returned values it consumes, or a saved frame index    *)
(*   x    : node tag, or the position of a macro call                       *)
(*   src  : a source pointer <<file, node>> computed earlier, or <<>>       *)
(*   lit  : Some(literal) or None                                           *)
(*   hd   : the first consumed value is the node's head (target, expansion) *)
(*   keep : the consumed values are stored in the node                      *)
(*   g    : history carried for the properties (not read by the lowering)   *)
(***************************************************************************)
Task(op, mode, n, k, x) ==
  [op |-> op, mode |-> mode, n |-> n, k |-> k, x |-> x, src |-> <<>>, lit |-> None,
   hd |-> FALSE, keep |-> FALSE, g |-> <<>>]

\* alloc_<mode>(node, source) once the k values below it are there.
AllocTask(mode, tag, n, k, hd, keep) ==
  [Task("alloc", mode, n, k, tag) EXCEPT !.hd = hd, !.keep = keep]
AllocLit(mode, lit, n) == [Task("alloc", mode, n, 0, "Literal") EXCEPT !.lit = Some(lit)]
AllocMissing(mode, n, k) == AllocTask(mode, "Missing", n, k, FALSE, FALSE)

\* record_<mode>_source(id, src) for the value on top.
RecordTask(mode, src) == [Task("record", mode, 0, 0, "") EXCEPT !.src = src]
\* ... with the source built from curr_file_id() when it runs.
RecordCurrTask(mode, n) == Task("record", mode, n, 0, "")

\* lower_<mode>(&expr)
LowerTask(mode, n) ==
  CASE Ast[n].kind = "var"   -> Task("var", mode, n, 0, "")
    [] Ast[n].kind = "macro" -> Task("macro", mode, n, 0, "node")
    [] OTHER                 -> Task("lower", mode, n, 0, "")

\* lower_optional_<mode>(Option<expr>)
LowerOpt(mode, n) == IF n = 0 THEN AllocMissing(mode, 0, 0) ELSE LowerTask(mode, n)

LowerAll(mode, ns) == [i \in 1..Len(ns) |-> LowerTask(mode, ns[i])]
LowerOptAll(mode, ns) == [i \in 1..Len(ns) |-> LowerOpt(mode, ns[i])]

\* One element of a clause list: lower_clause_or_macro / lower_cr_clause.
ClauseTask(ctx, n) ==
  IF Ast[n].kind = "macro" THEN Task("macro", "expr", n, 0, ctx)
  ELSE Task("clause", "expr", n, 0, ctx)

ClauseTasks(ctx, ns) == [i \in 1..Len(ns) |-> ClauseTask(ctx, ns[i])]

\* The arm list of case: mark, the arms, collect.
ArmTasks(ns) ==
  <<Task("mark", "expr", 0, 0, "")>> \o ClauseTasks("crclause", ns)
    \o <<[Task("collect", "expr", 0, 0, "crclause") EXCEPT !.g = ns]>>

\* One bit type of a segment, in lower_bin_element: resolve_name on a name,
\* resolve_arity on the value of a unit (None when the value is absent).
BitTypePlan(ty) ==
  IF Ast[ty].kind = "unit"
    THEN (IF Ast[ty].head # 0 THEN <<LowerTask("expr", Ast[ty].head)>> ELSE <<>>)
           \o <<Task("resolve", "expr", Ast[ty].head, 0, "arity")>>
    ELSE <<LowerTask("expr", ty), Task("resolve", "expr", ty, 0, "name")>>

\* Ctx::lower_bin_element : the element in the caller's mode, the size as an
\* expression, the bit types, then the BinarySeg.
lower_bin_element(mode, sn) ==
  LET a == Ast[sn] IN
  <<LowerOpt(mode, a.head)>> \o LowerAll("expr", a.kids)
    \o Flatten([i \in 1..Len(a.body) |-> BitTypePlan(a.body[i])])
    \o <<Task("mk_seg", mode, sn, 1 + Len(a.kids) + Len(a.body), "")>>

\* Binary arm of lower_expr_max / lower_pat_max / lower_term_max
BinaryPlan(mode, n) ==
  Flatten([i \in 1..Len(Ast[n].kids) |-> lower_bin_element(mode, Ast[n].kids[i])])
    \o <<Task("alloc_bin", mode, n, Len(Ast[n].kids), "")>>

\* UnaryOpExpr arm of the four lowering functions
UnaryPlan(mode, n) == <<LowerOpt(mode, Ast[n].head), Task("alloc_unary", mode, n, 1, Ast[n].name)>>

\* MapExpr arm of the four lowering functions: key and value of every field
\* (a pattern's keys are expressions), then the node.
MapPlan(mode, n) ==
  LET fs == Ast[n].kids
      keymode == IF mode = "pat" THEN "expr" ELSE mode
  IN  Flatten([i \in 1..Len(fs) |->
                 <<LowerOpt(keymode, Ast[fs[i]].kids[1]), LowerOpt(mode, Ast[fs[i]].kids[2])>>])
        \o <<Task("alloc_map", mode, n, 2 * Len(fs), "")>>

\* The calls of Ctx::lower_list, element by element (an absent left side is
\* make_missing, an absent right side gives None), then the List node.
ListPlan(mode, n) ==
  LET es == Ast[n].kids
      ElemPlan(e) ==
        IF Ast[e].kind = "pipe"
          THEN <<LowerOpt(mode, Ast[e].kids[1])>>
                 \o (IF Ast[e].kids[2] # 0 THEN <<LowerTask(mode, Ast[e].kids[2])>>
                     ELSE <<Task("ret_none", mode, 0, 0, "")>>)
          ELSE <<LowerTask(mode, e)>>
      plans == [i \in 1..Len(es) |-> ElemPlan(es[i])]
  IN  Flatten(plans) \o <<Task("alloc_list", mode, n, Len(Flatten(plans)), "")>>

\* Pipe arm of lower_expr / lower_pat / lower_term (a pipe outside a list)
PipePlan(mode, n) ==
  <<LowerOpt(mode, Ast[n].kids[1]), LowerOpt(mode, Ast[n].kids[2]), AllocMissing(mode, n, 2)>>

\* Pipe arm of lower_type_expr: the members of the union, along the right sides
RECURSIVE UnionMembers(_)
UnionMembers(n) ==
  LET rhs == Ast[n].kids[2]
  IN  <<Ast[n].kids[1]>>
        \o (IF rhs # 0 /\ Ast[rhs].kind = "pipe" THEN UnionMembers(rhs) ELSE <<rhs>>)

(***************************************************************************)
(* The four lowering functions, for the syntax kinds other than Var and     *)
(* MacroCallExpr: the calls each makes, in order, ending with its alloc.    *)
(***************************************************************************)
\* Ctx::lower_expr / lower_expr_max
lower_expr(n) ==
  LET a == Ast[n] IN
  CASE a.kind = "atom"  -> <<AllocLit("expr", LitAtom(a.name), n)>>
    [] a.kind = "int"   -> <<AllocLit("expr", LitInteger(a.val), n)>>
    [] a.kind = "char"  -> <<AllocLit("expr", LitChar(a.val), n)>>
    [] a.kind = "string" -> <<AllocLit("expr", LitString(a.chars), n)>>
    [] a.kind = "unary" -> UnaryPlan("expr", n)
    [] a.kind = "map"   -> MapPlan("expr", n)
    [] a.kind = "binary" -> BinaryPlan("expr", n)
    [] a.kind = "list"  -> ListPlan("expr", n)
    [] a.kind = "pipe"  -> PipePlan("expr", n)
    [] a.kind = "tuple" ->
         LowerAll("expr", a.kids) \o <<AllocTask("expr", "Tuple", n, Len(a.kids), FALSE, TRUE)>>
    [] a.kind = "call"  ->
         <<Task("target", "expr", a.head, 0, "")>> \o LowerAll("expr", a.kids)
           \o <<AllocTask("expr", "Call", n, 1 + Len(a.kids), TRUE, TRUE)>>
    [] a.kind = "catch" ->
         <<LowerOpt("expr", a.head), AllocTask("expr", "Catch", n, 1, TRUE, TRUE)>>
    [] a.kind = "case"  ->
         <<LowerOpt("expr", a.head)>> \o ArmTasks(a.kids)
           \o <<AllocTask("expr", "Case", n, 2, TRUE, TRUE)>>
    [] a.kind = "paren" ->
         IF a.head # 0
           THEN <<LowerTask("expr", a.head), RecordCurrTask("expr", n)>>
           ELSE <<AllocMissing("expr", n, 0)>>

\* Ctx::lower_pat / lower_pat_max
lower_pat(n) ==
  LET a == Ast[n] IN
  CASE a.kind = "atom"  -> <<AllocLit("pat", LitAtom(a.name), n)>>
    [] a.kind = "int"   -> <<AllocLit("pat", LitInteger(a.val), n)>>
    [] a.kind = "char"  -> <<AllocLit("pat", LitChar(a.val), n)>>
    [] a.kind = "string" -> <<AllocLit("pat", LitString(a.chars), n)>>
    [] a.kind = "unary" -> UnaryPlan("pat", n)
    [] a.kind = "map"   -> MapPlan("pat", n)
    [] a.kind = "binary" -> BinaryPlan("pat", n)
    [] a.kind = "list"  -> ListPlan("pat", n)
    [] a.kind = "pipe"  -> PipePlan("pat", n)
    [] a.kind = "tuple" ->
         LowerAll("pat", a.kids) \o <<AllocTask("pat", "Tuple", n, Len(a.kids), FALSE, TRUE)>>
    [] a.kind = "call"  ->
         <<LowerOpt("pat", a.head)>> \o LowerAll("pat", a.kids)
           \o <<AllocMissing("pat", n, 1 + Len(a.kids))>>
    [] a.kind = "catch" -> <<LowerOpt("pat", a.head), AllocMissing("pat", n, 1)>>
    [] a.kind = "case"  ->
         <<LowerOpt("pat", a.head)>> \o ArmTasks(a.kids) \o <<AllocMissing("pat", n, 2)>>
    [] a.kind = "paren" ->
         IF a.head # 0
           THEN <<LowerTask("pat", a.head), RecordCurrTask("pat", a.head)>>
           ELSE <<AllocMissing("pat", n, 0)>>

\* Ctx::lower_type_expr / lower_type_expr_max
lower_type_expr(n) ==
  LET a == Ast[n] IN
  CASE a.kind = "atom"  -> <<AllocLit("type", LitAtom(a.name), n)>>
    [] a.kind = "int"   -> <<AllocLit("type", LitInteger(a.val), n)>>
    [] a.kind = "char"  -> <<AllocLit("type", LitChar(a.val), n)>>
    [] a.kind = "string" -> <<AllocLit("type", LitString(a.chars), n)>>
    [] a.kind = "unary" -> UnaryPlan("type", n)
    [] a.kind = "map"   -> MapPlan("type", n)
    [] a.kind = "binary" -> <<AllocMissing("type", n, 0)>>
    [] a.kind = "list"  ->
         LowerAll("type", a.kids) \o <<Task("alloc_list", "type", n, Len(a.kids), "")>>
    [] a.kind = "pipe"  ->
         LowerOptAll("type", UnionMembers(n))
           \o <<AllocTask("type", "Union", n, Len(UnionMembers(n)), FALSE, TRUE)>>
    [] a.kind = "tuple" ->
         LowerAll("type", a.kids) \o <<AllocTask("type", "Tuple", n, Len(a.kids), FALSE, TRUE)>>
    [] a.kind = "call"  ->
         <<Task("target", "type", a.head, 0, "")>> \o LowerAll("type", a.kids)
           \o <<AllocTask("type", "Call", n, 1 + Len(a.kids), TRUE, TRUE)>>
    [] a.kind = "catch" -> <<LowerOpt("type", a.head), AllocMissing("type", n, 1)>>
    [] a.kind = "case"  -> <<AllocMissing("type", n, 0)>>
    [] a.kind = "paren" ->
         IF a.head # 0
           THEN <<LowerTask("type", a.head), RecordCurrTask("type", a.head)>>
           ELSE <<AllocMissing("type", n, 0)>>

\* Ctx::lower_term / lower_term_max
lower_term(n) ==
  LET a == Ast[n] IN
  CASE a.kind = "atom"  -> <<AllocLit("term", LitAtom(a.name), n)>>
    [] a.kind = "int"   -> <<AllocLit("term", LitInteger(a.val), n)>>
    [] a.kind = "char"  -> <<AllocLit("term", LitChar(a.val), n)>>
    [] a.kind = "string" -> <<AllocLit("term", LitString(a.chars), n)>>
    [] a.kind = "unary" -> UnaryPlan("term", n)
    [] a.kind = "map"   -> MapPlan("term", n)
    [] a.kind = "binary" -> BinaryPlan("term", n)
    [] a.kind = "list"  -> ListPlan("term", n)
    [] a.kind = "pipe"  -> PipePlan("term", n)
    [] a.kind = "tuple" ->
         LowerAll("term", a.kids) \o <<AllocTask("term", "Tuple", n, Len(a.kids), FALSE, TRUE)>>
    [] a.kind = "call"  ->
         <<LowerOpt("term", a.head)>> \o LowerAll("term", a.kids)
           \o <<AllocMissing("term", n, 1 + Len(a.kids))>>
    [] a.kind = "catch" -> <<LowerOpt("term", a.head), AllocMissing("term", n, 1)>>
    [] a.kind = "case"  -> <<AllocMissing("term", n, 0)>>
    [] a.kind = "paren" ->
         IF a.head # 0 THEN <<LowerTask("term", a.head)>> ELSE <<AllocMissing("term", n, 0)>>

LowerPlan(mode, n) ==
  CASE mode = "expr" -> lower_expr(n)
    [] mode = "pat"  -> lower_pat(n)
    [] mode = "type" -> lower_type_expr(n)
    [] mode = "term" -> lower_term(n)

\* Ctx::lower_clause (ctx "fclause") and the CrClause arm of lower_cr_clause
\* (ctx "crclause"): patterns, no guard, the body, then the clause itself.
lower_clause(ctx, n) ==
  LET a == Ast[n] IN
  (IF ctx = "fclause" THEN LowerAll("pat", a.kids) ELSE <<LowerOpt("pat", a.head)>>)
    \o LowerAll("expr", a.body)
    \o <<Task("mk_clause", "expr", n, 0, ctx)>>

(***************************************************************************)
(* The entry points: what each calls before finish.                        *)
(***************************************************************************)
\* lower_sigs, for one signature
lower_sig(sig) == LowerAll("type", sig.args) \o <<LowerOpt("type", sig.ty)>>

\* the closure of lower_record, for one field
lower_record_field(f) ==
  (IF f.expr # 0 THEN <<LowerTask("expr", f.expr)>> ELSE <<>>)
    \o (IF f.ty # 0 THEN <<LowerTask("type", f.ty)>> ELSE <<>>)

EntryPlan(u) ==
  CASE u.entry = "function" ->
         <<Task("mark", "expr", 0, 0, "")>> \o ClauseTasks("fclause", u.clauses)
           \o <<[Task("collect", "expr", 0, 0, "fclause") EXCEPT !.g = u.clauses]>>
    [] u.entry = "define" -> <<LowerTask("expr", u.root)>>
    [] u.entry \in {"attribute", "compile"} -> <<LowerOpt("term", u.root)>>
    [] u.entry \in {"type_alias", "opaque"} -> <<LowerOpt("type", u.root)>>
    [] u.entry \in {"spec", "callback"} ->
         Flatten([i \in 1..Len(u.sigs) |-> lower_sig(u.sigs[i])])
    [] u.entry = "record" ->
         Flatten([i \in 1..Len(u.fields) |-> lower_record_field(u.fields[i])])

(***************************************************************************)
(* Returned values: an arena id, None, one clause, a clause list, or the    *)
(* mark below which a clause list is being collected.                       *)
(***************************************************************************)
IdVal(id) == [t |-> "id", v |-> id, c |-> <<>>]
NoneVal == [t |-> "none", v |-> 0, c |-> <<>>]
MarkVal == [t |-> "mark", v |-> 0, c |-> <<>>]
ClauseVal(cl) == [t |-> "clause", v |-> 0, c |-> <<cl>>]
ClausesVal(cls) == [t |-> "clauses", v |-> 0, c |-> cls]
\* Option<Atom> of resolve_name ("name"), Option<i128> of resolve_arity ("arity")
OptVal(kind, opt) == [t |-> kind, v |-> 0, c |-> opt]
SegVal(seg) == [t |-> "seg", v |-> 0, c |-> <<seg>>]

IsId(val) == val.t = "id"
IsClauses(val) == val.t = "clauses"

TopVals(k) == SubSeq(vals, Len(vals) - k + 1, Len(vals))
DropVals(k) == SubSeq(vals, 1, Len(vals) - k)
IdsOf(vs) == LET ids == SelectSeq(vs, IsId) IN [i \in 1..Len(ids) |-> ids[i].v]
ClausesOf(vs) == LET cs == SelectSeq(vs, IsClauses) IN Flatten([i \in 1..Len(cs) |-> cs[i].c])

\* Index of the topmost mark in vals.
MarkAt == CHOOSE i \in 1..Len(vals) :
            vals[i].t = "mark" /\ \A j \in (i + 1)..Len(vals) : vals[j].t # "mark"

(***************************************************************************)
(* Body and BodySourceMap.                                                 *)
(***************************************************************************)
EmptyBody == [m \in Modes |-> <<>>]
EmptySourceMap == [map |-> [m \in Modes |-> {}], map_back |-> [m \in Modes |-> {}], macro_map |-> {}]

Node(tag, lit, var, head, ids, clauses) ==
  [tag |-> tag, lit |-> lit, var |-> var, head |-> head, ids |-> ids, clauses |-> clauses,
   tail |-> None, segs |-> <<>>, bytes |-> <<>>, fields |-> <<>>, op |-> ""]

Missing == Node("Missing", None, "", 0, <<>>, <<>>)

\* BinarySeg
BinarySeg(elem, size, unit_, tys) == [elem |-> elem, size |-> size, unit |-> unit_, tys |-> tys]

\* The value `ch as u8` / `int as u8` of lower_term_max
as_u8(i) == i % 256

\* lower_term_max, Binary arm: the fold over the segments.  acc is Some(bytes)
\* for Term::Binary(bytes) and None for Term::Missing.
RECURSIVE fold_binary(_, _, _)
fold_binary(arena, segs, acc) ==
  IF segs = <<>> THEN acc
  ELSE LET seg == Head(segs)
           e   == arena[seg.elem]
           nxt ==
             IF acc = None THEN None
             ELSE IF seg.size = None /\ seg.unit = None /\ seg.tys = <<>>
               THEN IF e.tag = "Literal" /\ e.lit[1].t \in {"Char", "Integer"}
                      THEN Some(Append(acc[1], as_u8(e.lit[1].i)))
                    ELSE IF e.tag = "Literal" /\ e.lit[1].t = "String"
                      THEN Some(acc[1] \o [j \in DOMAIN e.lit[1].s |-> as_u8(e.lit[1].s[j])])
                    ELSE None
             ELSE None
       IN  fold_binary(arena, Tail(segs), nxt)

\* lower_term, UnaryOpExpr arm: the term allocated for op applied to operand
unary_term(arena, op, operand) ==
  CASE op = "+" -> arena[operand]
    [] op = "-" ->
         IF arena[operand].tag = "Literal" /\ negate(arena[operand].lit[1]) # None
           THEN Node("Literal", negate(arena[operand].lit[1]), "", 0, <<>>, <<>>)
           ELSE Missing
    [] OTHER -> Missing

\* A faulty filter that keeps every field written with an operator.
keeps_field_any(mode, op) == op # ""

\* Which fields of a map literal the node keeps, by the field's operator
keeps_field(mode, op) ==
  CASE mode = "pat"  -> op = ":="
    [] mode = "type" -> op # ""
    [] OTHER         -> op = "=>"

\* A faulty lower_list that keeps the tail it recorded first.
pipe_tail_first(tail, rhs) == IF tail # None THEN tail ELSE rhs

\* lower_list: the tail after a pipe element whose right side gave rhs
pipe_tail(tail, rhs) == rhs

\* Ctx::lower_list, over the values its calls returned: (ids, tail)
RECURSIVE lower_list(_, _, _, _)
lower_list(elems, used, ids, tail) ==
  IF elems = <<>> THEN [ids |-> ids, tail |-> tail]
  ELSE IF Ast[Head(elems)].kind = "pipe"
    THEN lower_list(Tail(elems), SubSeq(used, 3, Len(used)),
                    Append(ids, used[1].v) \o (IF tail # None THEN <<tail[1]>> ELSE <<>>),
                    pipe_tail(tail, IF used[2].t = "none" THEN None ELSE Some(used[2].v)))
    ELSE lower_list(Tail(elems), Tail(used), Append(ids, used[1].v), tail)

\* A faulty record_<mode>_source that fills the forward map only.
record_source_forward(sm, mode, id, src) ==
  [sm EXCEPT !.map[mode] = Insert(@, src, id)]

\* record_expr_source / record_pat_source / record_type_source / record_term_source
record_source(sm, mode, id, src) ==
  [sm EXCEPT !.map[mode] = Insert(@, src, id), !.map_back[mode] = Insert(@, id, src)]

\* record_macro_resolution
record_macro_resolution(sm, file_id, call, res) ==
  [sm EXCEPT !.macro_map = Insert(@, <<file_id, call>>, res)]

\* alloc_expr / alloc_pat / alloc_type_expr / alloc_term : the source-map part
alloc_source(sm, mode, id, source) ==
  IF source # 0 THEN record_source(sm, mode, id, <<curr_file_id, source>>) ELSE sm

(***************************************************************************)
(* resolve_macro and enter_macro.                                          *)
(***************************************************************************)
\* A faulty resolve_macro that looks macros up in the file being expanded.
LookupFileCurrent == curr_file_id

\* The file every lookup of resolve_macro is made in.
LookupFile == original_file_id

\* A faulty retry that keeps the arity.
with_arity_kept(name) == name

\* MacroName::with_arity(None)
with_arity_none(name) == [name EXCEPT !.arity = None]

\* The check that opens resolve_macro: is the called name on the active chain?
IsActive(name) == \E i \in DOMAIN active_chain : active_chain[i].name = name

\* call.args() : Option<MacroCallArgs>
call_args(call) == IF Ast[call].hasargs THEN Some(Ast[call].kids) ELSE None

\* The decisions of resolve_macro for one call, before any callback runs:
\*   outcome  : "Refused", "Unresolved", or the MacroReplacement variant handed
\*              to the callback ("BuiltIn", "Ast", "BuiltInArgs", "AstArgs")
\*   res      : the ResolvedMacro that is recorded (when one was found)
\*   name     : the name given to the frame; args : the args given to enter_macro
\*   asked    : the names looked up, in order
Resolution(call) ==
  LET name   == macro_name(call)
      first  == db_resolve_macro(LookupFile, name)
      name2  == with_arity_none(name)
      second == db_resolve_macro(LookupFile, name2)
      R(outcome, res, nm, args, asked) ==
        [outcome |-> outcome, res |-> res, name |-> nm, args |-> args, asked |-> asked]
  IN  IF IsActive(name) THEN R("Refused", NoMacro, name, None, <<>>)
      ELSE IF first.tag = "BuiltIn" THEN R("BuiltIn", first, name, None, <<name>>)
      ELSE IF first.tag = "User" THEN R("Ast", first, name, call_args(call), <<name>>)
      ELSE IF call_args(call) = None THEN R("Unresolved", NoMacro, name, None, <<name>>)
      ELSE IF second.tag = "None" THEN R("Unresolved", NoMacro, name, None, <<name, name2>>)
      ELSE IF second.tag = "BuiltIn" THEN R("BuiltInArgs", second, name2, None, <<name, name2>>)
      ELSE R("AstArgs", second, name2, None, <<name, name2>>)

\* Does the call push a frame?  (enter_macro returns before pushing when the
\* definition has no replacement.)
PushesFrame(r) == r.outcome \in {"Ast", "AstArgs"} /\ Defs[r.res.def].rkind # "none"

RetNone == <<Task("ret_none", "expr", 0, 0, "")>>

\* The literal of a builtin, allocated and recorded against the call site.
BuiltInLit(mode, built_in, source, src) ==
  LET lit == lower_built_in_macro(built_in)
  IN  IF lit = None THEN RetNone
      ELSE <<AllocLit(mode, lit[1], source), RecordTask(mode, src)>>

\* The callbacks handed to resolve_macro by lower_expr_max, lower_pat_max,
\* lower_type_expr_max and lower_term_max (MacroCallExpr arm).
NodeCallback(mode, call, src, r) ==
  LET d    == Defs[r.res.def]
      args == Ast[call].kids
      Applied(target) ==
        target \o LowerOptAll(mode, args)
          \o <<AllocTask(mode, "Call", 0, 1 + Len(args), TRUE, TRUE), RecordTask(mode, src)>>
  IN  CASE r.outcome = "BuiltIn" ->
             BuiltInLit(mode, r.res.built_in, IF mode = "pat" THEN call ELSE 0, src)
        [] r.outcome = "Ast" ->
             IF d.rkind = "expr" THEN <<LowerTask(mode, d.rnode), RecordTask(mode, src)>>
             ELSE RetNone
        [] r.outcome = "BuiltInArgs" ->
             IF mode \in {"expr", "type"}
               THEN Applied(LET lit == lower_built_in_macro(r.res.built_in)
                            IN  IF lit = None THEN <<AllocMissing(mode, 0, 0)>>
                                ELSE <<AllocLit(mode, lit[1], 0)>>)
               ELSE RetNone
        [] r.outcome = "AstArgs" ->
             IF mode \in {"expr", "type"} /\ d.rkind = "expr"
               THEN Applied(<<Task("target", mode, d.rnode, 0, "")>>)
               ELSE RetNone
        [] OTHER -> RetNone

\* The callbacks of lower_call_target and lower_type_call_target.
TargetCallback(mode, call, src, r) ==
  LET d == Defs[r.res.def]
  IN  CASE r.outcome = "BuiltIn" -> BuiltInLit(mode, r.res.built_in, 0, src)
        [] r.outcome = "Ast" ->
             IF d.rkind = "expr" THEN <<Task("target", mode, d.rnode, 0, "")>> ELSE RetNone
        [] OTHER -> RetNone

\* A faulty splice that takes the ordinary clauses of the replacement only
\* (no recursive splice of the macro calls among them).
SplicedPlain(ctx, d) ==
  ClauseTasks(ctx, SelectSeq(d.rclauses, LAMBDA n : Ast[n].kind # "macro"))

\* The clause sequence a macro call contributes in a clause list.
SplicedClauses(ctx, d) == ClauseTasks(ctx, d.rclauses)

\* The callbacks of lower_clause_or_macro and lower_cr_clause.
ClauseCallback(ctx, r) ==
  LET d == Defs[r.res.def]
      wanted == IF ctx = "fclause" THEN "fclauses" ELSE "crclauses"
  IN  IF r.outcome = "Ast" /\ d.rkind = wanted THEN SplicedClauses(ctx, d) ELSE <<>>

Callback(ctx, mode, call, src, r) ==
  CASE ctx = "node"   -> NodeCallback(mode, call, src, r)
    [] ctx = "target" -> TargetCallback(mode, call, src, r)
    [] OTHER          -> ClauseCallback(ctx, r)

\* enter_macro, up to the call of the callback: the frame it pushes.
enter_macro_frame(r) ==
  MacroStackEntry(r.name, Defs[r.res.def].file, var_map_of(r.res.def, r.args), macro_stack_id)

\* A faulty index for the pushed frame: one past it.
new_stack_id_after(stack) == Len(stack) + 1

\* enter_macro: the index of the frame it pushes.
new_stack_id(stack) == Len(stack)

\* A faulty enter_macro that returns without popping its frame.
enter_macro_keep(stack) == stack

\* enter_macro, after the callback: the stack without its last entry.
enter_macro_pop(stack) == Front(stack)

\* A faulty resolve_var that leaves the index where the callback left it.
resolve_var_no_restore(curr_stack_id, now) == now

\* resolve_var, after the callback: the current-frame index it leaves.
resolve_var_restore(curr_stack_id, now) == curr_stack_id

\* What encloses the work below a task: a macro replacement ("exit_macro"),
\* an argument substituted for a parameter ("restore_var"), or the unit.
RECURSIVE NearestScope(_)
NearestScope(w) ==
  IF w = <<>> THEN "unit"
  ELSE IF Head(w).op \in {"exit_macro", "restore_var"} THEN Head(w).op
  ELSE NearestScope(Tail(w))

\* The call site (source pointer) of the innermost macro replacement being
\* lowered, <<>> outside any.
RECURSIVE EnclosingSite(_)
EnclosingSite(w) ==
  IF w = <<>> THEN <<>>
  ELSE IF Head(w).op = "exit_macro" THEN Head(w).src
  ELSE EnclosingSite(Tail(w))

(***************************************************************************)
(* The source database (base_db): the input facts, the derived queries of  *)
(* SourceDatabase and the memo the query engine keeps for them.            *)
(***************************************************************************)
VARIABLES
  inputs,   \* the input facts, per kind and key
  stamp,    \* per input fact: the revision that set it last
  memo,     \* per derived query and argument: value, what was read, the revisions it was verified / changed at
  last,     \* the most recent get: its key, the value returned, the query functions that ran
  seen,     \* per derived query and argument: its previous get and what was set since
  nsets,    \* set_input calls so far (the current revision)
  ngets     \* get calls so far

dbvars == <<inputs, stamp, memo, last, seen, nsets, ngets>>

\* Number of database operations (set_input and get calls) in one run.
MaxOps == 3

\* is_generated looks at this many bytes, for a marker this long.
GeneratedLimit == 2001
MarkerLen == 10

Files == {"f1", "f2"}
Roots == {"r1", "r2"}
Projects == {"p1", "p2"}

\* A file text: its length in bytes, the byte offset of "@generated" and the
\* place of a multi-byte character (offset of its first byte, bytes it takes).
Texts ==
  { [len |-> 0, marker |-> None, wide |-> None],
    [len |-> 40, marker |-> Some(3), wide |-> None],
    [len |-> 3000, marker |-> Some(1995), wide |-> Some([at |-> 2010, width |-> 2])],
    [len |-> 3000, marker |-> None, wide |-> Some([at |-> 2000, width |-> 3])] }

\* SourceRoot: the path of each of its files.
Path(dir, name, ext) == [dir |-> dir, name |-> name, ext |-> ext]
SourceRoots ==
  { {<<"f1", Path("src", "a", Some("erl"))>>, <<"f2", Path("test", "a_SUITE", Some("erl"))>>},
    {<<"f1", Path("src", "a", Some("hrl"))>>} }

\* Option<Arc<AppData>>
AppDatas ==
  { None,
    Some([name |-> "app", app_type |-> "App", extra_src_dirs |-> {"test"}, project_id |-> "p1"]),
    Some([name |-> "stdlib", app_type |-> "Otp", extra_src_dirs |-> {}, project_id |-> "p2"]) }

\* ProjectData: p2 is the OTP project.
ProjectDatas(p) ==
  IF p = "p1"
    THEN { [source_roots |-> <<"r1", "r2">>, otp_project_id |-> Some("p2")],
           [source_roots |-> <<"r1">>, otp_project_id |-> None] }
    ELSE { [source_roots |-> <<"r2">>, otp_project_id |-> Some("p2")],
           [source_roots |-> <<>>, otp_project_id |-> Some("p2")] }

InputKinds == {"file_text", "file_source_root", "source_root", "app_data", "project_data"}
InputKey(kind, key) == <<kind, key>>

FileQueries == {"parse", "is_generated", "is_test_suite_or_test_helper",
                "file_app_type", "file_app_name"}
Keys == ({"module_index"} \X Projects) \cup (FileQueries \X Files)

\* The storage the query group declares for a query.
QueryStorageVolatile(q) ==
  IF q \in InputKinds THEN "input" ELSE IF q = "parse" THEN "volatile" ELSE "memoized"

QueryStorage(q) == IF q \in InputKinds THEN "input" ELSE "memoized"

\* SourceFile::parse_text
parse_text(text) == [tree |-> text, errors |-> <<>>]

\* AppData::is_extra_src_file, SourceRoot::path_for_file, SourceRoot::iter_app_files
is_extra_src_file(app_data, path) == path.dir \in app_data.extra_src_dirs
path_for_file(root, file_id) == Get(root, file_id)
iter_app_files(root, app_data) ==
  { <<e[1], IF is_extra_src_file(app_data, e[2]) THEN "Extra" ELSE "Src", e[2]>> : e \in root }

\* fn parse
parse(inp, file_id) == parse_text(inp.file_text[file_id])

\* str::is_char_boundary(index), for index <= len
is_char_boundary(text, index) ==
  \/ index = 0
  \/ index = text.len
  \/ text.wide = None
  \/ ~(text.wide[1].at < index /\ index < text.wide[1].at + text.wide[1].width)

\* fn is_generated: the slice contents[0..end] panics when end is not on a
\* character boundary.
is_generated_panics(inp, file_id) ==
  LET contents == inp.file_text[file_id]
  IN  ~is_char_boundary(contents, Min(GeneratedLimit, contents.len))

\* fn is_generated, when the slice is taken
is_generated(inp, file_id) ==
  LET contents == inp.file_text[file_id]
      upto     == Min(GeneratedLimit, contents.len)
  IN  contents.marker # None /\ contents.marker[1] + MarkerLen <= upto

\* A faulty is_test_suite_or_test_helper that answers "no" for a file the
\* source root has no path for.
is_test_suite_or_test_helper_no_path(inp, file_id) ==
  LET root_id  == inp.file_source_root[file_id]
      root     == inp.source_root[root_id]
      app_data == inp.app_data[root_id]
      path     == path_for_file(root, file_id)
  IN  IF app_data = None THEN None
      ELSE IF path = {} THEN Some(FALSE)
      ELSE Some(is_extra_src_file(app_data[1], CHOOSE p \in path : TRUE))

\* fn is_test_suite_or_test_helper
is_test_suite_or_test_helper(inp, file_id) ==
  LET root_id  == inp.file_source_root[file_id]
      root     == inp.source_root[root_id]
      app_data == inp.app_data[root_id]
      path     == path_for_file(root, file_id)
  IN  IF app_data = None THEN None
      ELSE IF path = {} THEN None
      ELSE Some(is_extra_src_file(app_data[1], CHOOSE p \in path : TRUE))

\* fn file_app_type
file_app_type(inp, file_id) ==
  LET app_data == inp.app_data[inp.file_source_root[file_id]]
  IN  IF app_data = None THEN None ELSE Some(app_data[1].app_type)

\* fn file_app_name
file_app_name(inp, file_id) ==
  LET app_data == inp.app_data[inp.file_source_root[file_id]]
  IN  IF app_data = None THEN None ELSE Some(app_data[1].name)

\* fn is_in_otp (hir, module_data.rs)
is_in_otp(inp, file_id) ==
  LET app_data == inp.app_data[inp.file_source_root[file_id]]
  IN  IF app_data = None THEN FALSE
      ELSE inp.project_data[app_data[1].project_id].otp_project_id = Some(app_data[1].project_id)

\* fn module_index; otp_modules is the value of module_index(otp project)
\* when the function asks for it.
module_index(inp, project_id, otp_modules) ==
  LET project_data == inp.project_data[project_id]
      roots == project_data.source_roots
      Inserted(source_root_id) ==
        LET app_data == inp.app_data[source_root_id]
        IN  IF app_data = None THEN {}
            ELSE { <<e[3].name, e[1], e[2]>> :
                     e \in { x \in iter_app_files(inp.source_root[source_root_id], app_data[1]) :
                               x[3].ext = Some("erl") } }
      otp == project_data.otp_project_id
  IN  [modules |-> UNION {Inserted(roots[i]) : i \in DOMAIN roots},
       otp |-> IF otp = None THEN "none" ELSE IF otp[1] = project_id THEN "is_otp" ELSE "set_otp",
       otp_modules |-> IF otp # None /\ otp[1] # project_id THEN otp_modules ELSE {}]

\* The derived queries a query function calls (module_index of the OTP
\* project, from module_index of another project).
SubKeys(inp, key) ==
  LET otp == inp.project_data[key[2]].otp_project_id
  IN  IF key[1] = "module_index" /\ otp # None /\ otp[1] # key[2]
        THEN {<<"module_index", otp[1]>>} ELSE {}

\* The input facts a query function reads.
DirectReads(inp, key) ==
  LET a == key[2] IN
  CASE key[1] \in {"parse", "is_generated"} -> {InputKey("file_text", a)}
    [] key[1] = "is_test_suite_or_test_helper" ->
         {InputKey("file_source_root", a), InputKey("source_root", inp.file_source_root[a]),
          InputKey("app_data", inp.file_source_root[a])}
    [] key[1] \in {"file_app_type", "file_app_name"} ->
         {InputKey("file_source_root", a), InputKey("app_data", inp.file_source_root[a])}
    [] key[1] = "module_index" ->
         LET roots == inp.project_data[a].source_roots
         IN  {InputKey("project_data", a)}
               \cup {InputKey("app_data", roots[i]) : i \in DOMAIN roots}
               \cup {InputKey("source_root", roots[i]) :
                       i \in {j \in DOMAIN roots : inp.app_data[roots[j]] # None}}

\* A faulty module_index that reads the facts of the OTP project itself.
InputReadsWithOtp(inp, key) ==
  DirectReads(inp, key) \cup UNION {DirectReads(inp, s) : s \in SubKeys(inp, key)}

InputReads(inp, key) == DirectReads(inp, key)

\* Does the query function of a key panic?
Panics(inp, key) == key[1] = "is_generated" /\ is_generated_panics(inp, key[2])

\* The query function of a key.
Compute(inp, key, sub) ==
  CASE key[1] = "parse" -> parse(inp, key[2])
    [] key[1] = "is_generated" -> is_generated(inp, key[2])
    [] key[1] = "is_test_suite_or_test_helper" -> is_test_suite_or_test_helper(inp, key[2])
    [] key[1] = "file_app_type" -> file_app_type(inp, key[2])
    [] key[1] = "file_app_name" -> file_app_name(inp, key[2])
    [] key[1] = "module_index" -> module_index(inp, key[2], sub)

\* get(query, args) at revision rev: the memoized value when it is verified
\* for this revision or nothing it read has changed since it was; otherwise
\* the query function runs (after the derived queries it calls) and its value
\* is memoized, keeping the revision of the last change when the value is
\* equal to the previous one.  No query of this group calls more than one
\* derived query.
RECURSIVE Fetch(_, _, _, _, _)
RECURSIVE VerifyDeps(_, _, _, _, _)

\* The first half of a get of a memoized, not yet verified value: the derived
\* queries it read are brought up to date.
VerifyDeps(inp, stamps, rev, m, key) ==
  LET olds == {d \in m[key].deps : d \in Keys}
  IN  IF olds = {} THEN [m |-> m, ran |-> {}, value |-> None]
      ELSE Fetch(inp, stamps, rev, m, CHOOSE d \in olds : TRUE)

Fetch(inp, stamps, rev, m, key) ==
  LET e == m[key]
      stored == QueryStorage(key[1]) = "memoized"
      olds == {d \in e.deps : d \in Keys}
      old == VerifyDeps(inp, stamps, rev, m, key)
      dirty == \/ \E d \in e.deps \ Keys : stamps[d] > e.verified_at
               \/ \E d \in olds : old.m[d].changed_at > e.verified_at
      Run(m0, ran0) ==
        LET subs == SubKeys(inp, key)
            sub == IF subs = {} THEN [m |-> m0, ran |-> {}, value |-> None]
                   ELSE Fetch(inp, stamps, rev, m0, CHOOSE k \in subs : TRUE)
            value == Compute(inp, key, IF subs = {} THEN {} ELSE sub.value.modules)
            entry == [has |-> TRUE, value |-> value,
                      deps |-> InputReads(inp, key) \cup subs,
                      verified_at |-> rev,
                      changed_at |-> IF e.has /\ value = e.value THEN e.changed_at ELSE rev]
        IN  [m |-> IF stored THEN [sub.m EXCEPT ![key] = entry] ELSE sub.m,
             ran |-> ran0 \cup sub.ran \cup {key}, value |-> value]
  IN  IF ~stored \/ ~e.has THEN Run(m, {})
      ELSE IF e.verified_at = rev THEN [m |-> m, ran |-> {}, value |-> e.value]
      ELSE IF dirty THEN Run(old.m, old.ran)
      ELSE [m |-> [old.m EXCEPT ![key].verified_at = rev], ran |-> old.ran, value |-> e.value]

\* Every input fact the value of a key depends on.
RECURSIVE AllReads(_, _)
AllReads(inp, key) ==
  InputReads(inp, key) \cup UNION {AllReads(inp, s) : s \in SubKeys(inp, key)}

NoMemo == [has |-> FALSE, value |-> None, deps |-> {}, verified_at |-> 0, changed_at |-> 0]
NoGet == [key |-> <<"", "">>, value |-> None, ran |-> {}, had |-> FALSE, touched |-> FALSE,
          between |-> FALSE, prev |-> None, direct_touched |-> FALSE, sub_ran |-> FALSE,
          sub_changed |-> FALSE, cancelled |-> FALSE, entry |-> NoMemo, after_cancel |-> FALSE,
          fresh |-> FALSE, panicked |-> FALSE]
NotSeen == [had |-> FALSE, value |-> None, reads |-> {}, touched |-> FALSE, between |-> FALSE,
            direct |-> {}, subs |-> {}, direct_touched |-> FALSE, sub_ran |-> FALSE,
            sub_changed |-> FALSE, cancelled |-> FALSE]

\* A database whose inputs are all set and that has answered no query yet.
DbInit ==
  /\ inputs = [file_text |-> [f \in Files |->
                                IF f = "f1" THEN [len |-> 40, marker |-> Some(3), wide |-> None]
                                ELSE [len |-> 0, marker |-> None, wide |-> None]],
               file_source_root |-> [f \in Files |-> "r1"],
               source_root |-> [r \in Roots |->
                  IF r = "r1"
                    THEN {<<"f1", Path("src", "a", Some("erl"))>>,
                          <<"f2", Path("test", "a_SUITE", Some("erl"))>>}
                    ELSE {<<"f1", Path("src", "a", Some("hrl"))>>}],
               app_data |-> [r \in Roots |->
                  IF r = "r1"
                    THEN Some([name |-> "app", app_type |-> "App", extra_src_dirs |-> {"test"},
                               project_id |-> "p1"])
                    ELSE None],
               project_data |-> [p \in Projects |->
                  IF p = "p1" THEN [source_roots |-> <<"r1", "r2">>, otp_project_id |-> Some("p2")]
                  ELSE [source_roots |-> <<"r2">>, otp_project_id |-> Some("p2")]]]
  /\ stamp = [k \in (({"file_text", "file_source_root"} \X Files)
                       \cup ({"source_root", "app_data"} \X Roots)
                       \cup ({"project_data"} \X Projects)) |-> 0]
  /\ memo = [k \in Keys |-> NoMemo]
  /\ last = NoGet
  /\ seen = [k \in Keys |-> NotSeen]
  /\ nsets = 0
  /\ ngets = 0

(***************************************************************************)
(* The last step of stub validation (eqwalizer, trans_valid.rs): the       *)
(* TransitiveChecker of module "m".  A reference names a type or a record; *)
(* the stub of "m" can declare the types t1 and t2, the record r3, the     *)
(* opaque type o4 (private side with its body, public side without), the   *)
(* spec s5, the overloaded spec os6 and the callbacks cb7 and cb8; it      *)
(* declares no type u, and the stub of the module of x cannot be loaded.   *)
(* A type is the sequence of what is met when it is walked: references,    *)
(* and "opaque" where the walk meets a Type::OpaqueType.                   *)
(***************************************************************************)
VARIABLES
  stub,          \* the ModuleStub given to check: the body of each declaration
  stub_result,   \* the declarations still in the maps of the resulting stub
  checked,       \* the declarations check has visited so far
  in_progress,   \* TransitiveChecker.in_progress
  invalid_refs,  \* TransitiveChecker.invalid_refs, as a set of <<ref, invalids>>
  invalid_forms, \* stub_result.invalid_forms
  callbacks,     \* stub_result.callbacks
  expanded,      \* the references is_valid put in progress, in order
  returned       \* what check has returned: "no" (still running), "Ok" or "Err"

transvars == <<stub, stub_result, checked, in_progress, invalid_refs, invalid_forms,
               callbacks, expanded, returned>>

\* References a body can hold.
MaxRefs == 2

TypeDecls == {"t1", "t2"}
RecDecls == {"r3"}
PrivateOpaques == {"o4"}
PublicOpaques == {"o4_public"}
Specs == {"s5"}
OverloadedSpecs == {"os6"}
\* stub.callbacks is a Vec: its order.
CallbackOrder == <<"cb7", "cb8">>
Callbacks == {CallbackOrder[i] : i \in DOMAIN CallbackOrder}
RefOrder == <<"t1", "t2", "r3", "u", "x">>
Refs == {RefOrder[i] : i \in DOMAIN RefOrder}

\* The id a declaration is checked under.
IdOf(d) == IF d \in PublicOpaques THEN "o4" ELSE d

\* db.covariant_stub(project, module of the reference)
StubLoads(rref) == rref # "x"

\* stub.types.get(id), then stub.private_opaques.get(id); stub.records.get(name)
Declares(g, rref) == rref \in DOMAIN g \cap (TypeDecls \cup PrivateOpaques \cup RecDecls)

Bodies ==
  { SelectSeq(RefOrder, LAMBDA r : r \in S) : S \in {T \in SUBSET Refs : Cardinality(T) <= MaxRefs} }

RECURSIVE is_valid(_, _, _)
RECURSIVE collect_invalid_references(_, _, _, _)

\* collect_invalid_references over what a type holds, in order: `refs` gains
\* every reference is_valid rejects; an opaque type, or an error of is_valid,
\* ends the walk with the error.
collect_invalid_references(st, g, refs, tys) ==
  IF tys = <<>> THEN [st |-> st, refs |-> refs, err |-> FALSE]
  ELSE IF Head(tys) = "opaque" THEN [st |-> st, refs |-> refs, err |-> TRUE]
  ELSE LET v == is_valid(st, g, Head(tys))
       IN  IF v.err THEN [st |-> v.st, refs |-> refs, err |-> TRUE]
           ELSE collect_invalid_references(v.st, g,
                  IF v.valid THEN refs ELSE refs \cup {Head(tys)}, Tail(tys))

\* A faulty is_valid that does not look at the memo.
Memoised_never(st, rref) == FALSE

\* is_valid: self.invalid_refs.get(rref) is Some
Memoised(st, rref) == Get(st.invalid_refs, rref) # {}

\* TransitiveChecker::is_valid
is_valid(st, g, rref) ==
  IF rref \in st.in_progress THEN [st |-> st, valid |-> TRUE, err |-> FALSE]
  ELSE IF Memoised(st, rref)
    THEN [st |-> st, valid |-> (CHOOSE invs \in Get(st.invalid_refs, rref) : TRUE) = {},
          err |-> FALSE]
  ELSE
    LET st1 == [st EXCEPT !.in_progress = @ \cup {rref}, !.expanded = Append(@, rref)]
        c   == IF StubLoads(rref) /\ Declares(g, rref)
                 THEN collect_invalid_references(st1, g, {}, g[rref])
                 ELSE [st |-> st1, refs |-> {rref}, err |-> FALSE]
    IN  IF c.err THEN [st |-> c.st, valid |-> FALSE, err |-> TRUE]
        ELSE [st |-> [c.st EXCEPT !.in_progress = @ \ {rref},
                                  !.invalid_refs = Insert(@, rref, c.refs)],
              valid |-> c.refs = {}, err |-> FALSE]

\* No checker is at work.
NoChecker ==
  /\ stub = <<>>
  /\ stub_result = {}
  /\ checked = {}
  /\ in_progress = {}
  /\ invalid_refs = {}
  /\ invalid_forms = <<>>
  /\ callbacks = <<>>
  /\ expanded = <<>>
  /\ returned = "no"

\* TransitiveChecker::new, and the clone of the stub check starts from (its
\* callbacks emptied).
CheckerNew ==
  /\ stub_result = DOMAIN stub \ Callbacks
  /\ checked = {}
  /\ in_progress = {}
  /\ invalid_refs = {}
  /\ invalid_forms = <<>>
  /\ callbacks = <<>>
  /\ expanded = <<>>
  /\ returned = "no"

\* A stub of types and records.
TransInit ==
  /\ stub \in [TypeDecls \cup RecDecls -> Bodies]
  /\ CheckerNew

\* The checker as a value.
Checker == [in_progress |-> in_progress, invalid_refs |-> invalid_refs, expanded |-> expanded]

\* The position of a declaration in the order check visits the stub:
\* types, private opaques, public opaques, records, specs, overloaded specs,
\* callbacks.
Phase(d) ==
  CASE d \in TypeDecls       -> 1
    [] d \in PrivateOpaques  -> 2
    [] d \in PublicOpaques   -> 3
    [] d \in RecDecls        -> 4
    [] d \in Specs           -> 5
    [] d \in OverloadedSpecs -> 6
    [] OTHER                 -> 7

\* Declaration d is the next one of its map (in any order within a map, in
\* order within the callbacks).
IsNext(d) ==
  /\ returned = "no"
  /\ d \in DOMAIN stub \ checked
  /\ \A e \in DOMAIN stub : Phase(e) < Phase(d) => e \in checked
  /\ \A i, j \in DOMAIN CallbackOrder :
       (i < j /\ CallbackOrder[j] = d /\ CallbackOrder[i] \in DOMAIN stub) =>
         CallbackOrder[i] \in checked

\* The checker after a walk, and the error the ? hands up to check.
CheckerAfter(st, err) ==
  /\ in_progress' = st.in_progress
  /\ invalid_refs' = st.invalid_refs
  /\ expanded' = st.expanded
  /\ returned' = IF err THEN "Err" ELSE "no"

\* What a check_* does to the resulting stub: nothing when the declaration
\* is judged valid, else the declaration leaves its map and, for a form
\* kind, one invalid form with the references found is pushed.
Judge(d, remove, references, form) ==
  /\ stub_result' = IF remove THEN stub_result \ {d} ELSE stub_result
  /\ invalid_forms' = IF remove /\ form # ""
                        THEN Append(invalid_forms,
                                    [form |-> form, id |-> IdOf(d), references |-> references])
                        ELSE invalid_forms
  /\ checked' = checked \cup {d}

\* show_invalids: the memo of a reference.
show_invalids(st, rref) == UNION Get(st.invalid_refs, rref)

\* check_type_decl / check_private_opaque_decl / check_public_opaque_decl /
\* check_record_decl for one declaration.
CheckDeclOf(d, form) ==
  LET v == is_valid(Checker, stub, IdOf(d))
  IN  /\ CheckerAfter(v.st, v.err)
      /\ Judge(d, ~v.err /\ ~v.valid, show_invalids(v.st, IdOf(d)), form)
      /\ UNCHANGED <<lowervars, dbvars, stub, callbacks>>

\* check: the types, in the order the map gives them ...
CheckTypeDecl ==
  \E d \in TypeDecls : IsNext(d) /\ CheckDeclOf(d, "InvalidTypeDecl")

\* ... the private opaques ...
CheckPrivateOpaqueDecl ==
  \E d \in PrivateOpaques : IsNext(d) /\ CheckDeclOf(d, "InvalidTypeDecl")

\* ... the public opaques, which leave no invalid form ...
CheckPublicOpaqueDecl ==
  \E d \in PublicOpaques : IsNext(d) /\ CheckDeclOf(d, "")

\* ... the records ...
CheckRecordDecl ==
  \E d \in RecDecls : IsNext(d) /\ CheckDeclOf(d, "InvalidRecDecl")

\* The walk of the types of a spec or callback, one after the other, into one
\* set of invalid references.
RECURSIVE collect_all(_, _, _, _)
collect_all(st, g, refs, tys) ==
  IF tys = <<>> THEN [st |-> st, refs |-> refs, err |-> FALSE]
  ELSE LET c == collect_invalid_references(st, g, refs, Head(tys))
       IN  IF c.err THEN c ELSE collect_all(c.st, g, c.refs, Tail(tys))

\* ... the specs (check_spec) ...
CheckSpec ==
  \E d \in Specs :
    /\ IsNext(d)
    /\ LET c == collect_invalid_references(Checker, stub, {}, stub[d])
       IN  /\ CheckerAfter(c.st, c.err)
           /\ Judge(d, ~c.err /\ c.refs # {}, c.refs, "InvalidFunSpec")
    /\ UNCHANGED <<lowervars, dbvars, stub, callbacks>>

\* ... the overloaded specs (check_overloaded_spec) ...
CheckOverloadedSpec ==
  \E d \in OverloadedSpecs :
    /\ IsNext(d)
    /\ LET c == collect_all(Checker, stub, {}, stub[d])
       IN  /\ CheckerAfter(c.st, c.err)
           /\ Judge(d, ~c.err /\ c.refs # {}, c.refs, "InvalidFunSpec")
    /\ UNCHANGED <<lowervars, dbvars, stub, callbacks>>

\* A faulty check_callback that keeps every signature.
filtered_tys_all(st, g, tys, kept) == [st |-> st, tys |-> tys, err |-> FALSE]

\* check_callback: the signatures of a callback that have no invalid
\* reference, in order.
RECURSIVE filtered_tys(_, _, _, _)
filtered_tys(st, g, tys, kept) ==
  IF tys = <<>> THEN [st |-> st, tys |-> kept, err |-> FALSE]
  ELSE LET c == collect_invalid_references(st, g, {}, Head(tys))
       IN  IF c.err THEN [st |-> c.st, tys |-> kept, err |-> TRUE]
           ELSE filtered_tys(c.st, g, Tail(tys),
                             IF c.refs = {} THEN Append(kept, Head(tys)) ELSE kept)

\* ... and the callbacks, each pushed again with the signatures kept.
CheckCallback ==
  \E d \in Callbacks :
    /\ IsNext(d)
    /\ LET f == filtered_tys(Checker, stub, stub[d], <<>>)
       IN  /\ CheckerAfter(f.st, f.err)
           /\ callbacks' = IF f.err THEN callbacks
                           ELSE Append(callbacks, [id |-> d, tys |-> f.tys])
    /\ checked' = checked \cup {d}
    /\ UNCHANGED <<lowervars, dbvars, stub, stub_result, invalid_forms>>

\* check returns Ok(stub_result).
CheckReturn ==
  /\ returned = "no"
  /\ stub # <<>>
  /\ checked = DOMAIN stub
  /\ returned' = "Ok"
  /\ UNCHANGED <<lowervars, dbvars, stub, stub_result, checked, in_progress, invalid_refs,
                 invalid_forms, callbacks, expanded>>

(***************************************************************************)
(* Init: Ctx::new for one unit of m.erl against one database.              *)
(***************************************************************************)
EmptyHist ==
  [lookups |-> <<>>, resolves |-> <<>>, dones |-> <<>>, roots |-> <<>>, allocs |-> <<>>,
   substs |-> <<>>, restores |-> <<>>, collects |-> <<>>, entered |-> 0]

\* set_function_info, as the function_body query calls it before lower_function.
FunctionInfoOf(u) ==
  IF u.entry # "function" THEN None
  ELSE Some([name |-> "f",
             arity |-> IF Ast[Head(u.clauses)].kind = "clause"
                         THEN Len(Ast[Head(u.clauses)].kids) ELSE 0])

Init ==
  /\ tree = [ast |-> AstPool, defs |-> DefPool, units |-> UnitPool]
  /\ db \in Databases
  /\ unit \in 1..Len(Units)
  /\ original_file_id = "m.erl"
  /\ macro_stack = <<Sentinel("m.erl")>>
  /\ macro_stack_id = 0
  /\ function_info = FunctionInfoOf(Units[unit])
  /\ body = EmptyBody
  /\ source_map = EmptySourceMap
  /\ work = EntryPlan(Units[unit]) \o <<Task("finish", "expr", 0, 0, "")>>
  /\ vals = <<>>
  /\ pc = "lowering"
  /\ hist = EmptyHist
  /\ DbInit
  /\ NoChecker

Running(op) == pc = "lowering" /\ work # <<>> /\ Head(work).op = op
Top == Head(work)
Rest == Tail(work)

(***************************************************************************)
(* Steps of the lowering.                                                  *)
(***************************************************************************)
\* lower_expr / lower_pat / lower_type_expr / lower_term on a node that is
\* neither a variable nor a macro call.
LowerNode ==
  /\ Running("lower")
  /\ work' = LowerPlan(Top.mode, Top.n) \o Rest
  /\ UNCHANGED <<dbvars, transvars, tree, db, unit, original_file_id, macro_stack, macro_stack_id, function_info,
                 body, source_map, vals, pc, hist>>

\* lower_call_target / lower_type_call_target
LowerCallTarget ==
  /\ Running("target")
  /\ work' = (CASE Top.n = 0 -> <<AllocMissing(Top.mode, 0, 0)>>
                [] Top.n # 0 /\ Ast[Top.n].kind = "paren" ->
                     <<Task("target", Top.mode, Ast[Top.n].head, 0, "")>>
                [] Top.n # 0 /\ Ast[Top.n].kind = "macro" ->
                     <<Task("macro", Top.mode, Top.n, 0, "target")>>
                [] OTHER -> <<LowerTask(Top.mode, Top.n)>>) \o Rest
  /\ UNCHANGED <<dbvars, transvars, tree, db, unit, original_file_id, macro_stack, macro_stack_id, function_info,
                 body, source_map, vals, pc, hist>>

\* lower_clause, or the CrClause arm of lower_cr_clause
LowerClause ==
  /\ Running("clause")
  /\ work' = lower_clause(Top.x, Top.n) \o Rest
  /\ UNCHANGED <<dbvars, transvars, tree, db, unit, original_file_id, macro_stack, macro_stack_id, function_info,
                 body, source_map, vals, pc, hist>>

\* The Var arm of the four lowering functions, through resolve_var: a
\* parameter of the current frame is replaced by the caller's argument, lowered
\* with the current-frame index moved to the frame's parent; any other
\* variable is allocated (Term has no variables: Missing).
ResolveVar ==
  /\ Running("var")
  /\ LET entry == macro_stack[macro_stack_id + 1]
         found == Get(entry.var_map, Ast[Top.n].name)
     IN  IF found # {}
           THEN /\ macro_stack_id' = entry.parent_id
                /\ work' = <<LowerOpt(Top.mode, CHOOSE a \in found : TRUE),
                             [Task("restore_var", Top.mode, Top.n, macro_stack_id, "")
                                EXCEPT !.g = <<Len(macro_stack), hist.entered>>]>> \o Rest
                /\ hist' = [hist EXCEPT !.substs = Append(@,
                              [n |-> Top.n, from |-> macro_stack_id, to |-> entry.parent_id])]
           ELSE /\ macro_stack_id' = macro_stack_id
                /\ work' = <<AllocTask(Top.mode, IF Top.mode = "term" THEN "Missing" ELSE "Var",
                                       Top.n, 0, FALSE, FALSE)>> \o Rest
                /\ hist' = hist
  /\ UNCHANGED <<dbvars, transvars, tree, db, unit, original_file_id, macro_stack, function_info,
                 body, source_map, vals, pc>>

\* resolve_var after its callback returned: the saved index is put back.
RestoreVar ==
  /\ Running("restore_var")
  /\ macro_stack_id' = resolve_var_restore(Top.k, macro_stack_id)
  /\ work' = Rest
  /\ hist' = [hist EXCEPT !.restores = Append(@,
                [saved |-> Top.k, before |-> macro_stack_id, after |-> macro_stack_id',
                 depth0 |-> Top.g[1], depth |-> Len(macro_stack),
                 entered0 |-> Top.g[2], entered |-> hist.entered])]
  /\ UNCHANGED <<dbvars, transvars, tree, db, unit, original_file_id, macro_stack, function_info,
                 body, source_map, vals, pc>>

\* resolve_macro, with enter_macro up to the call of the callback: the
\* refusal of an active name, the lookup with the explicit arity, the retry
\* without arity, the recording of the resolution, the frame pushed for a user
\* macro; then the callback, the pop of the frame, and what the caller does
\* with the result.
ResolveMacro ==
  /\ Running("macro")
  /\ LET call == Top.n
         ctx  == Top.x
         r    == Resolution(call)
         src  == <<curr_file_id, call>>
         push == PushesFrame(r)
         cb   == IF r.outcome \in {"Refused", "Unresolved"} \/ (r.outcome \in {"Ast", "AstArgs"} /\ ~push)
                   THEN (IF ctx \in {"node", "target"} THEN RetNone ELSE <<>>)
                   ELSE Callback(ctx, Top.mode, call, src, r)
         done == IF ctx \in {"node", "target"}
                   THEN <<[Task("macro_done", Top.mode, call, 0, ctx) EXCEPT !.g = <<r.outcome, curr_file_id>>]>>
                   ELSE <<>>
     IN  /\ push => Len(macro_stack) < MaxFrames
         /\ source_map' = IF r.res.tag # "None"
                            THEN record_macro_resolution(source_map, curr_file_id, call, r.res)
                            ELSE source_map
         /\ macro_stack' = IF push THEN Append(macro_stack, enter_macro_frame(r)) ELSE macro_stack
         /\ macro_stack_id' = IF push THEN new_stack_id(macro_stack) ELSE macro_stack_id
         /\ work' = cb \o (IF push THEN <<[Task("exit_macro", Top.mode, call, 0, ctx) EXCEPT !.src = src]>> ELSE <<>>)
                       \o done \o Rest
         /\ hist' = [hist EXCEPT
                       !.lookups = @ \o [i \in 1..Len(r.asked) |->
                                           [file |-> LookupFile, name |-> r.asked[i],
                                            curr |-> curr_file_id, call |-> call]],
                       !.resolves = Append(@, [n |-> call, mode |-> Top.mode, ctx |-> ctx,
                                               outcome |-> r.outcome, res |-> r.res,
                                               asked |-> r.asked, frame |-> macro_stack_id,
                                               pushed |-> push]),
                       !.entered = IF push THEN @ + 1 ELSE @]
  /\ UNCHANGED <<dbvars, transvars, tree, db, unit, original_file_id, function_info, body, vals, pc>>

\* The recursion of the lowering functions has no bound of its own: a frame
\* pushed at depth MaxFrames stands for the exhaustion of the call stack.
StackOverflow ==
  /\ Running("macro")
  /\ PushesFrame(Resolution(Top.n))
  /\ Len(macro_stack) >= MaxFrames
  /\ pc' = "overflow"
  /\ UNCHANGED <<dbvars, transvars, tree, db, unit, original_file_id, macro_stack, macro_stack_id, function_info,
                 body, source_map, work, vals, hist>>

\* enter_macro after its callback returned: the frame is popped and the
\* current-frame index goes back to the popped frame's parent.
ExitMacro ==
  /\ Running("exit_macro")
  /\ macro_stack' = enter_macro_pop(macro_stack)
  /\ macro_stack_id' = Last(macro_stack).parent_id
  /\ work' = Rest
  /\ UNCHANGED <<dbvars, transvars, tree, db, unit, original_file_id, function_info, body, source_map, vals, pc, hist>>

\* A callback (or resolve_macro itself) returns None.
ReturnNone ==
  /\ Running("ret_none")
  /\ vals' = Append(vals, NoneVal)
  /\ work' = Rest
  /\ UNCHANGED <<dbvars, transvars, tree, db, unit, original_file_id, macro_stack, macro_stack_id, function_info,
                 body, source_map, pc, hist>>

\* What the caller of resolve_macro does with its result
\* (.flatten().map(..).unwrap_or_else(..)): an expansion is wrapped in a
\* MacroCall node whose arguments are lowered as expressions; without one the
\* arguments (expression and guard of each) are lowered in the caller's mode
\* and the call becomes Missing.  In call-target position the expansion is
\* the target itself.
\* A faulty fallback that drops the arguments of the call.
unresolved_fallback_no_args(mode, call) == <<AllocMissing(mode, call, 0)>>

\* What the caller of resolve_macro does when it got nothing: every argument
\* of the call (its expression and its guard) is lowered in the mode of the
\* call, then one Missing node is allocated with the call as its source.
unresolved_fallback(mode, call) ==
  LET args == Ast[call].kids
  IN  Flatten([i \in 1..Len(args) |-> <<LowerOpt(mode, args[i]), LowerOpt(mode, 0)>>])
        \o <<AllocMissing(mode, call, 2 * Len(args))>>

MacroDone ==
  /\ Running("macro_done")
  /\ LET call == Top.n
         mode == Top.mode
         args == Ast[call].kids
         got  == Last(vals)
         fallback == unresolved_fallback(mode, call)
     IN  /\ IF got.t = "none"
              THEN /\ vals' = DropVals(1)
                   /\ work' = fallback \o Rest
              ELSE /\ vals' = vals
                   /\ work' = (IF Top.x = "node"
                                 THEN LowerOptAll("expr", args)
                                        \o <<AllocTask(mode, "MacroCall", call, 1 + Len(args), TRUE, TRUE)>>
                                 ELSE <<>>) \o Rest
         /\ hist' = [hist EXCEPT !.dones = Append(@,
                       [n |-> call, mode |-> mode, ctx |-> Top.x, outcome |-> Top.g[1],
                        file |-> Top.g[2], id |-> got.v])]
  /\ UNCHANGED <<dbvars, transvars, tree, db, unit, original_file_id, macro_stack, macro_stack_id, function_info,
                 body, source_map, pc>>

\* alloc_expr / alloc_pat / alloc_type_expr / alloc_term: the node is appended
\* to its arena and, when a source is given, recorded under
\* (curr_file_id(), pointer).  k is the number of returned values the caller
\* built the node from.
\* A faulty arena: the new node is put in front of the others.
arena_alloc_front(arena, node) == <<node>> \o arena

\* Arena::alloc: the node is pushed after the nodes the arena holds.
arena_alloc(arena, node) == Append(arena, node)

AllocNode(mode, node, n, k) ==
  LET id == Len(body[mode]) + 1
  IN  /\ body' = [body EXCEPT ![mode] = arena_alloc(@, node)]
      /\ source_map' = alloc_source(source_map, mode, id, n)
      /\ vals' = Append(DropVals(k), IdVal(id))
      /\ hist' = [hist EXCEPT !.allocs = Append(@,
                    [mode |-> mode, id |-> id, n |-> n, file |-> curr_file_id,
                     frame |-> macro_stack_id, scope |-> NearestScope(Rest),
                     site |-> EnclosingSite(Rest), used |-> TopVals(k)])]
      /\ work' = Rest
      /\ UNCHANGED <<dbvars, transvars, tree, db, unit, original_file_id, macro_stack,
                     macro_stack_id, function_info, pc>>

Alloc ==
  /\ Running("alloc")
  /\ LET t    == Top
         used == TopVals(t.k)
         tl   == IF t.hd THEN Tail(used) ELSE used
     IN  AllocNode(t.mode,
                   Node(t.x, t.lit,
                        IF t.x = "Var" THEN Ast[t.n].name ELSE "",
                        IF t.hd THEN Head(used).v ELSE 0,
                        IF t.keep THEN IdsOf(tl) ELSE <<>>,
                        IF t.keep THEN ClausesOf(tl) ELSE <<>>),
                   t.n, t.k)

\* resolve_name / resolve_arity, once the name or value is lowered as an
\* expression: Some only when the node it lowered to is an atom (integer)
\* literal.
Resolve ==
  /\ Running("resolve")
  /\ LET e    == body["expr"][Last(vals).v]
         want == IF Top.x = "name" THEN "Atom" ELSE "Integer"
         got  == IF Top.n = 0 THEN None
                 ELSE IF e.tag = "Literal" /\ e.lit[1].t = want
                   THEN Some(IF Top.x = "name" THEN e.lit[1].s[1] ELSE e.lit[1].i)
                 ELSE None
     IN  vals' = Append(IF Top.n = 0 THEN vals ELSE DropVals(1), OptVal(Top.x, got))
  /\ work' = Rest
  /\ UNCHANGED <<dbvars, transvars, tree, db, unit, original_file_id, macro_stack, macro_stack_id,
                 function_info, body, source_map, pc, hist>>

\* lower_bin_element, its last step: the BinarySeg of the element, the size,
\* the unit of the last unit type and the names that resolved.
MakeSeg ==
  /\ Running("mk_seg")
  /\ LET a     == Ast[Top.n]
         used  == TopVals(Top.k)
         tvals == SubSeq(used, 2 + Len(a.kids), Top.k)
         names == SelectSeq(tvals, LAMBDA x : x.t = "name" /\ x.c # None)
         units == SelectSeq(tvals, LAMBDA x : x.t = "arity")
     IN  vals' = Append(DropVals(Top.k),
                        SegVal(BinarySeg(used[1].v,
                                         IF a.kids # <<>> THEN Some(used[2].v) ELSE None,
                                         IF units = <<>> THEN None ELSE Last(units).c,
                                         [i \in 1..Len(names) |-> names[i].c[1]])))
  /\ work' = Rest
  /\ UNCHANGED <<dbvars, transvars, tree, db, unit, original_file_id, macro_stack, macro_stack_id,
                 function_info, body, source_map, pc, hist>>

\* Binary arm: Expr::Binary / Pat::Binary of the segments; as a term, the
\* constant the fold gives, or Missing.
AllocBinary ==
  /\ Running("alloc_bin")
  /\ LET used   == TopVals(Top.k)
         segs   == [i \in 1..Top.k |-> used[i].c[1]]
         folded == fold_binary(body["term"], segs, Some(<<>>))
         node   == IF Top.mode # "term"
                     THEN [Node("Binary", None, "", 0, <<>>, <<>>) EXCEPT !.segs = segs]
                   ELSE IF folded = None THEN Missing
                   ELSE [Node("Binary", None, "", 0, <<>>, <<>>) EXCEPT !.bytes = folded[1]]
     IN  AllocNode(Top.mode, node, Top.n, Top.k)

\* UnaryOpExpr arm: a UnaryOp node over the operand (Missing without an
\* operator); as a term, what the operator folds to.
AllocUnary ==
  /\ Running("alloc_unary")
  /\ LET operand == Last(vals).v
         node == IF Top.mode = "term" THEN unary_term(body["term"], Top.x, operand)
                 ELSE IF Top.x = "" THEN Missing
                 ELSE [Node("UnaryOp", None, "", operand, <<>>, <<>>) EXCEPT !.op = Top.x]
     IN  AllocNode(Top.mode, node, Top.n, 1)

\* MapExpr arm: the (key, value) pairs of the fields the mode keeps (with the
\* operator in a type).
AllocMap ==
  /\ Running("alloc_map")
  /\ LET fs    == Ast[Top.n].kids
         used  == TopVals(Top.k)
         kept  == SelectSeq([i \in 1..Len(fs) |-> i],
                            LAMBDA i : keeps_field(Top.mode, Ast[fs[i]].name))
         Field(i) == IF Top.mode = "type"
                       THEN <<used[2 * i - 1].v, Ast[fs[i]].name, used[2 * i].v>>
                       ELSE <<used[2 * i - 1].v, used[2 * i].v>>
     IN  AllocNode(Top.mode,
                   [Node("Map", None, "", 0, <<>>, <<>>)
                      EXCEPT !.fields = [j \in 1..Len(kept) |-> Field(kept[j])]],
                   Top.n, Top.k)

\* List arm: the ids and the tail lower_list returns; in a type, the
\* ListType of the first element.
AllocList ==
  /\ Running("alloc_list")
  /\ LET used == TopVals(Top.k)
         r    == lower_list(Ast[Top.n].kids, used, <<>>, None)
         node == IF Top.mode = "type"
                   THEN Node("List", None, "", 0,
                             IF used = <<>> THEN <<>> ELSE <<used[1].v>>, <<>>)
                   ELSE [Node("List", None, "", 0, r.ids, <<>>) EXCEPT !.tail = r.tail]
     IN  AllocNode(Top.mode, node, Top.n, Top.k)

\* record_<mode>_source for the id just returned: against the call site of an
\* expansion (source computed by resolve_macro), or against a parenthesised
\* expression (source computed now).
RecordSource ==
  /\ Running("record")
  /\ LET src == IF Top.src # <<>> THEN Top.src ELSE <<curr_file_id, Top.n>>
         id  == Last(vals).v
     IN  /\ source_map' = record_source(source_map, Top.mode, id, src)
         /\ hist' = IF Top.src # <<>>
                      THEN [hist EXCEPT !.roots = Append(@, [mode |-> Top.mode, id |-> id, src |-> src])]
                      ELSE hist
  /\ work' = Rest
  /\ UNCHANGED <<dbvars, transvars, tree, db, unit, original_file_id, macro_stack, macro_stack_id, function_info,
                 body, vals, pc>>

\* The Clause / CRClause built once its patterns and body are lowered.
MakeClause ==
  /\ Running("mk_clause")
  /\ LET a  == Ast[Top.n]
         np == IF Top.x = "fclause" THEN Len(a.kids) ELSE 1
         ne == Len(a.body)
         used == IdsOf(TopVals(np + ne))
     IN  vals' = Append(DropVals(np + ne),
                        ClauseVal([pats |-> SubSeq(used, 1, np),
                                   exprs |-> SubSeq(used, np + 1, np + ne),
                                   syn |-> Top.n]))
  /\ work' = Rest
  /\ UNCHANGED <<dbvars, transvars, tree, db, unit, original_file_id, macro_stack, macro_stack_id, function_info,
                 body, source_map, pc, hist>>

\* A clause list starts (the flat_map over the clause elements) ...
BeginClauses ==
  /\ Running("mark")
  /\ vals' = Append(vals, MarkVal)
  /\ work' = Rest
  /\ UNCHANGED <<dbvars, transvars, tree, db, unit, original_file_id, macro_stack, macro_stack_id, function_info,
                 body, source_map, pc, hist>>

\* ... and is collected: the clauses contributed since, in order.
CollectClauses ==
  /\ Running("collect")
  /\ LET above == SubSeq(vals, MarkAt + 1, Len(vals))
         cls   == Flatten([i \in 1..Len(above) |-> above[i].c])
     IN  /\ vals' = Append(SubSeq(vals, 1, MarkAt - 1), ClausesVal(cls))
         /\ hist' = [hist EXCEPT !.collects = Append(@,
                       [syns |-> [i \in 1..Len(cls) |-> cls[i].syn],
                        names |-> {active_chain[i].name : i \in DOMAIN active_chain},
                        elems |-> Top.g, ctx |-> Top.x])]
  /\ work' = Rest
  /\ UNCHANGED <<dbvars, transvars, tree, db, unit, original_file_id, macro_stack, macro_stack_id, function_info,
                 body, source_map, pc>>

\* Ctx::finish: the last frame is popped and must be the sentinel, alone.
FinishOk(stack) ==
  /\ stack # <<>>
  /\ Last(stack).file_id = original_file_id
  /\ Last(stack).parent_id = 0
  /\ Last(stack).var_map = {}
  /\ Front(stack) = <<>>

Finish ==
  /\ Running("finish")
  /\ pc' = IF FinishOk(macro_stack) THEN "finished" ELSE "panic"
  /\ macro_stack' = IF macro_stack # <<>> THEN Front(macro_stack) ELSE macro_stack
  /\ work' = Rest
  /\ UNCHANGED <<dbvars, transvars, tree, db, unit, original_file_id, macro_stack_id, function_info,
                 body, source_map, vals, hist>>

Next ==
  \/ LowerNode
  \/ LowerCallTarget
  \/ LowerClause
  \/ ResolveVar
  \/ RestoreVar
  \/ ResolveMacro
  \/ StackOverflow
  \/ ExitMacro
  \/ ReturnNone
  \/ MacroDone
  \/ Alloc
  \/ Resolve
  \/ MakeSeg
  \/ AllocBinary
  \/ AllocUnary
  \/ AllocMap
  \/ AllocList
  \/ RecordSource
  \/ MakeClause
  \/ BeginClauses
  \/ CollectClauses
  \/ Finish

vars == <<lowervars, dbvars, transvars>>

Spec == Init /\ [][Next]_vars

(***************************************************************************)
(* The database on its own: inputs are set and queries are asked, in any   *)
(* order.                                                                  *)
(***************************************************************************)
\* No lowering is going on.
NoLowering ==
  /\ tree = [ast |-> <<>>, defs |-> <<>>, units |-> <<>>]
  /\ db = [defs |-> {}, module |-> None]
  /\ unit = 0
  /\ original_file_id = "m.erl"
  /\ macro_stack = <<>>
  /\ macro_stack_id = 0
  /\ function_info = None
  /\ body = EmptyBody
  /\ source_map = EmptySourceMap
  /\ work = <<>>
  /\ vals = <<>>
  /\ pc = "idle"
  /\ hist = EmptyHist

InitDb == NoLowering /\ DbInit /\ NoChecker

\* set_input(kind, key, value): the fact is replaced and the revision moves
\* on; nothing is recomputed.
SetInput(kind, key, value) ==
  /\ nsets + ngets < MaxOps
  /\ inputs' = [inputs EXCEPT ![kind][key] = value]
  /\ stamp' = [stamp EXCEPT ![InputKey(kind, key)] = nsets + 1]
  /\ nsets' = nsets + 1
  /\ seen' = [k \in Keys |->
                IF seen[k].had
                  THEN [seen[k] EXCEPT !.between = TRUE,
                                       !.touched = @ \/ InputKey(kind, key) \in seen[k].reads,
                                       !.direct_touched = @ \/ InputKey(kind, key) \in seen[k].direct]
                  ELSE seen[k]]
  /\ last' = [last EXCEPT !.fresh = FALSE]
  /\ UNCHANGED <<lowervars, transvars, memo, ngets>>

SetFileText == \E f \in Files, t \in Texts : SetInput("file_text", f, t)
SetFileSourceRoot == \E f \in Files, r \in Roots : SetInput("file_source_root", f, r)
SetSourceRoot == \E r \in Roots, v \in SourceRoots : SetInput("source_root", r, v)
SetAppData == \E r \in Roots, v \in AppDatas : SetInput("app_data", r, v)
SetProjectData == \E p \in Projects : \E v \in ProjectDatas(p) : SetInput("project_data", p, v)

\* get(query, args)
GetQuery ==
  \E key \in Keys :
    LET r == Fetch(inputs, stamp, nsets, memo, key)
        \* what this get did to the derived queries k read at its previous get
        SubRan(k) == seen[k].sub_ran \/ \E s \in seen[k].subs : s \in r.ran
        SubChanged(k) ==
          seen[k].sub_changed \/ \E s \in seen[k].subs : s \in r.ran /\ r.m[s].value # memo[s].value
    IN  /\ nsets + ngets < MaxOps
        /\ ~(key \in r.ran /\ Panics(inputs, key))
        /\ memo' = r.m
        /\ last' = [key |-> key, value |-> r.value, ran |-> r.ran, had |-> seen[key].had,
                    touched |-> seen[key].touched, between |-> seen[key].between,
                    prev |-> seen[key].value, direct_touched |-> seen[key].direct_touched,
                    sub_ran |-> SubRan(key), sub_changed |-> SubChanged(key),
                    cancelled |-> FALSE, entry |-> memo[key],
                    after_cancel |-> seen[key].cancelled, fresh |-> TRUE, panicked |-> FALSE]
        /\ seen' = [k \in Keys |->
                      IF k = key
                        THEN [had |-> TRUE, value |-> r.value,
                              reads |-> AllReads(inputs, key),
                              touched |-> FALSE, between |-> FALSE,
                              direct |-> DirectReads(inputs, key), subs |-> SubKeys(inputs, key),
                              direct_touched |-> FALSE, sub_ran |-> FALSE, sub_changed |-> FALSE,
                              cancelled |-> FALSE]
                      ELSE IF seen[k].had
                        THEN [seen[k] EXCEPT !.sub_ran = SubRan(k), !.sub_changed = SubChanged(k)]
                      ELSE seen[k]]
        /\ ngets' = ngets + 1
        /\ UNCHANGED <<lowervars, transvars, inputs, stamp, nsets>>

\* get(query, args) when the query function panics: the panic goes up to the
\* caller of get and nothing is stored.
GetPanics ==
  \E key \in Keys :
    /\ nsets + ngets < MaxOps
    /\ key \in Fetch(inputs, stamp, nsets, memo, key).ran
    /\ Panics(inputs, key)
    /\ last' = [NoGet EXCEPT !.key = key, !.fresh = TRUE, !.panicked = TRUE]
    /\ ngets' = ngets + 1
    /\ UNCHANGED <<lowervars, transvars, inputs, stamp, memo, seen, nsets>>

NextDb ==
  \/ SetFileText
  \/ SetFileSourceRoot
  \/ SetSourceRoot
  \/ SetAppData
  \/ SetProjectData
  \/ GetQuery
  \/ GetPanics

SpecDb == InitDb /\ [][NextDb]_vars

(***************************************************************************)
(* Cancellation.  A get whose query function has to run is cancelled       *)
(* before the function returns: at one of the input reads of the function  *)
(* (nothing was stored yet), or, for a memoized value that is being        *)
(* verified, after the derived queries it read were brought up to date     *)
(* (their entries are stored, the entry of the cancelled query is not).    *)
(***************************************************************************)
\* The value of a query computed from the inputs, without any memo.
RECURSIVE Fresh(_, _)
Fresh(inp, key) ==
  LET subs == SubKeys(inp, key)
  IN  Compute(inp, key, IF subs = {} THEN {} ELSE Fresh(inp, CHOOSE k \in subs : TRUE).modules)

\* The cancellation outcome of an attempt at revision rev, as a memo entry.
CancelledOutcome(rev) ==
  [has |-> TRUE, value |-> "Cancelled", deps |-> {}, verified_at |-> rev, changed_at |-> rev]

\* A faulty engine that stores the cancellation outcome.
PublishedEntry(before, rev) == CancelledOutcome(rev)

\* The entry of the cancelled query after the attempt: the one before it.
KeptEntry(before, rev) == before

CancelGet ==
  \E key \in Keys, verified \in BOOLEAN :
    LET full == Fetch(inputs, stamp, nsets, memo, key)
        deep == verified /\ memo[key].has /\ memo[key].verified_at # nsets
        part == IF deep THEN VerifyDeps(inputs, stamp, nsets, memo, key)
                ELSE [m |-> memo, ran |-> {}, value |-> None]
    IN  /\ nsets + ngets < MaxOps
        /\ key \in full.ran
        /\ verified => deep
        /\ memo' = [part.m EXCEPT ![key] = KeptEntry(memo[key], nsets)]
        /\ last' = [NoGet EXCEPT !.key = key, !.ran = part.ran, !.cancelled = TRUE,
                                 !.entry = memo[key], !.fresh = TRUE]
        /\ seen' = [k \in Keys |->
                      IF k = key THEN [seen[k] EXCEPT !.cancelled = TRUE]
                      ELSE IF seen[k].had
                        THEN [seen[k] EXCEPT
                                !.sub_ran = @ \/ \E s \in seen[k].subs : s \in part.ran,
                                !.sub_changed = @ \/ \E s \in seen[k].subs :
                                                   s \in part.ran /\ part.m[s].value # memo[s].value]
                      ELSE seen[k]]
        /\ ngets' = ngets + 1
        /\ UNCHANGED <<lowervars, transvars, inputs, stamp, nsets>>

NextCancel ==
  \/ SetSourceRoot
  \/ SetAppData
  \/ SetProjectData
  \/ GetQuery
  \/ CancelGet

SpecCancel == InitDb /\ [][NextCancel]_vars

(***************************************************************************)
(* The transitive check on its own.                                        *)
(***************************************************************************)
InitTrans == NoLowering /\ DbInit /\ TransInit

NextTrans ==
  \/ CheckTypeDecl
  \/ CheckRecordDecl

SpecTrans == InitTrans /\ [][NextTrans]_vars

(***************************************************************************)
(* The transitive check of a stub with every kind of declaration.          *)
(***************************************************************************)
\* What the walk of a type can meet, in a fixed order.
WalkOrder == <<"t1", "r3", "o4", "u", "x", "opaque">>

\* The types with at most MaxRefs things to meet, and those with at most one.
WalkBodies ==
  { SelectSeq(WalkOrder, LAMBDA r : r \in S) :
      S \in {T \in SUBSET {WalkOrder[i] : i \in DOMAIN WalkOrder} : Cardinality(T) <= MaxRefs} }
ShortBodies == {w \in WalkBodies : Len(w) <= 1}

\* The stub: type t1, opaque o4, record r3, spec s5 of type a, overloaded
\* spec os6 of types b and a, callback cb7 with signatures a and b, callback
\* cb8 with signature b.
StubOf(t1, r3, o4, a, b) ==
  [d \in {"t1", "r3", "o4", "o4_public", "s5", "os6", "cb7", "cb8"} |->
     CASE d = "t1"  -> t1
       [] d = "r3"  -> r3
       [] d = "o4"  -> o4
       [] d = "s5"  -> a
       [] d = "os6" -> <<b, a>>
       [] d = "cb7" -> <<a, b>>
       [] d = "cb8" -> <<b>>
       [] OTHER     -> <<>>]

InitCheck ==
  /\ NoLowering
  /\ DbInit
  /\ stub \in {StubOf(t1, r3, o4, a, b) :
                 t1 \in WalkBodies, r3 \in ShortBodies, o4 \in ShortBodies,
                 a \in ShortBodies \ {<<"x">>}, b \in {<<>>, <<"t1">>}}
  /\ CheckerNew

NextCheck ==
  \/ CheckTypeDecl
  \/ CheckPrivateOpaqueDecl
  \/ CheckPublicOpaqueDecl
  \/ CheckRecordDecl
  \/ CheckSpec
  \/ CheckOverloadedSpec
  \/ CheckCallback
  \/ CheckReturn

SpecCheck == InitCheck /\ [][NextCheck]_vars

(***************************************************************************)
(* Properties of the lowering.                                             *)
(***************************************************************************)
\* The frames above the sentinel are each owned by one enter_macro call that
\* has not returned yet.
PendingExits == Cardinality({i \in DOMAIN work : work[i].op = "exit_macro"})

\* C1: for every entry point and every nesting of expansions and
\* substitutions, finish finds the frame stack holding exactly the sentinel
\* (original file, parent 0, empty parameter map): every frame pushed by
\* enter_macro is popped by the same call, so no assertion of finish fails.
FinishSeesSentinel ==
  /\ pc # "panic"
  /\ pc = "lowering" => PendingExits = Len(macro_stack) - 1
  /\ Running("finish") => /\ macro_stack = <<Sentinel(original_file_id)>>
                          /\ macro_stack_id = 0
  /\ pc = "finished" => macro_stack = <<>>

\* A finished run that nested expansions and had an expansion inside a
\* substituted argument.
FinishAfterNesting ==
  /\ pc = "finished"
  /\ hist.entered >= 3
  /\ \E i \in DOMAIN hist.restores : hist.restores[i].entered > hist.restores[i].entered0

\* C2: lowering terminates whatever the macro definitions: the call stack is
\* never exhausted, no macro name is twice on the active chain, and a call
\* refused for re-entering an active macro has no expansion (it lowers to
\* Missing).
ExpansionTerminates ==
  /\ pc # "overflow"
  /\ pc = "lowering" =>
       \A i, j \in DOMAIN active_chain :
         i # j => active_chain[i].name.name # active_chain[j].name.name
  /\ \A i \in DOMAIN hist.dones :
       hist.dones[i].outcome = "Refused" => hist.dones[i].id = 0

\* The work at position i is not inside a later expansion or substitution.
DirectlyIn(i) == \A j \in 1..(i - 1) : work[j].op \notin {"exit_macro", "restore_var"}

\* C3: while the argument substituted for a parameter is lowered, the
\* current-frame index is the parent of the frame that owns the parameter,
\* and when that lowering returns the index is exactly what it was before,
\* whatever was expanded inside the argument.
ArgumentLoweredInParent ==
  /\ \A i \in DOMAIN hist.restores :
       LET r == hist.restores[i] IN r.after = r.saved /\ r.depth = r.depth0
  /\ pc = "lowering" =>
       \A i \in DOMAIN work :
         (work[i].op = "restore_var" /\ DirectlyIn(i)) =>
            /\ macro_stack_id = macro_stack[work[i].k + 1].parent_id
            /\ Len(macro_stack) = work[i].g[1]

\* An index restored after an argument in which a macro was expanded.
RestoredAfterExpansion ==
  \E i \in DOMAIN hist.restores :
    LET r == hist.restores[i]
    IN  r.entered > r.entered0 /\ r.after = r.saved /\ r.after # r.before

\* C4 (as stated): every node allocated while a macro's replacement is
\* lowered, at any depth, is recorded in the back map against the call site
\* of that macro.
ExpansionNodesAtCallSite ==
  pc = "finished" =>
    \A i \in DOMAIN hist.allocs :
      LET a == hist.allocs[i]
      IN  a.scope = "exit_macro" => Get(source_map.map_back[a.mode], a.id) = {a.site}

\* C4 (amended): the node a macro call expands to, where the call stands for
\* a node of one of the four arenas, is recorded in the back map against the
\* call's own syntax pointer paired with the file id current at the call.
ExpansionRootAtCallSite ==
  \A i \in DOMAIN hist.dones :
    LET d == hist.dones[i]
    IN  (d.ctx = "node" /\ d.id # 0) =>
          Get(source_map.map_back[d.mode], d.id) = {<<d.file, d.n>>}

\* A finished run in which the root of an expansion had first been recorded
\* against the definition's syntax.
RootMovedToCallSite ==
  /\ pc = "finished"
  /\ \E i \in DOMAIN hist.dones, j \in DOMAIN hist.allocs :
       LET d == hist.dones[i]
           a == hist.allocs[j]
       IN  /\ d.ctx = "node" /\ d.id # 0
           /\ a.mode = d.mode /\ a.id = d.id /\ a.n # 0
           /\ a.file # d.file

\* C5: lowering never fails on parseable input: it neither panics nor
\* exhausts the stack, and a macro call without expansion becomes a Missing
\* node of its arena recorded against the call's syntax pointer.
LoweringNeverFails ==
  /\ pc \notin {"panic", "overflow"}
  /\ pc = "finished" =>
       \A i \in DOMAIN hist.dones :
         LET d == hist.dones[i]
         IN  (d.ctx = "node" /\ d.id = 0) =>
               \E id \in DOMAIN body[d.mode] :
                 /\ body[d.mode][id].tag = "Missing"
                 /\ <<<<d.file, d.n>>, id>> \in source_map.map[d.mode]

\* C7: every lookup, at any depth, with or without arity, is made in the
\* original file of the Body, and what is recorded for a call is what that
\* file resolves the name to.
LookupsInOriginalFile ==
  /\ \A i \in DOMAIN hist.lookups : hist.lookups[i].file = original_file_id
  /\ \A i \in DOMAIN hist.resolves :
       LET r == hist.resolves[i]
           name == macro_name(r.n)
       IN  r.res.tag # "None" =>
             r.res \in {db_resolve_macro(original_file_id, name),
                        db_resolve_macro(original_file_id, [name EXCEPT !.arity = None])}

\* A lookup made while a replacement from another file is lowered, for a name
\* that file resolves differently.
LookupInsideForeignReplacement ==
  \E i \in DOMAIN hist.lookups :
    LET l == hist.lookups[i]
    IN  /\ l.curr # original_file_id
        /\ db_resolve_macro(l.curr, l.name) # db_resolve_macro(original_file_id, l.name)

\* What the two lookups of a call give, read from the database alone.
FirstLookup(call) == db_resolve_macro(original_file_id, macro_name(call))
SecondLookup(call) ==
  db_resolve_macro(original_file_id, [macro_name(call) EXCEPT !.arity = None])
HasReplacementExpr(res) == res.tag = "BuiltIn" \/ Defs[res.def].rkind = "expr"

\* The call of a macro found by the retry: a Call node with one argument per
\* argument of the macro call and a target allocated before it.
IsAppliedCall(d) ==
  /\ d.id # 0
  /\ body[d.mode][d.id].tag = "Call"
  /\ Len(body[d.mode][d.id].ids) = Len(Ast[d.n].kids)
  /\ body[d.mode][d.id].head \in 1..(d.id - 1)

\* The two-phase lookup of one finished call that was not refused; `applies`
\* tells where a macro found by the retry has to yield a call.
TwoPhase(d, applies) ==
  LET first  == FirstLookup(d.n)
      second == SecondLookup(d.n)
      site   == <<d.file, d.n>>
  IN  /\ first.tag # "None" =>
           /\ d.outcome \in {"BuiltIn", "Ast"}
           /\ <<site, first>> \in source_map.macro_map
      /\ (first.tag = "None" /\ Ast[d.n].hasargs /\ second.tag # "None") =>
           /\ d.outcome \in {"BuiltInArgs", "AstArgs"}
           /\ <<site, second>> \in source_map.macro_map
           /\ applies => IsAppliedCall(d)
      /\ (first.tag = "None" /\ (~Ast[d.n].hasargs \/ second.tag = "None")) =>
           /\ d.outcome = "Unresolved"
           /\ d.id = 0

\* C8 (as stated): the lookup with the explicit arity is used when it finds
\* something; only otherwise, and only with an argument list, the lookup is
\* retried without arity; a retry that finds a macro yields a call of the
\* replacement (or builtin value) with the call's arguments; otherwise the
\* call is unresolved.
TwoPhaseLookup ==
  \A i \in DOMAIN hist.dones :
    LET d == hist.dones[i]
    IN  d.outcome # "Refused" => TwoPhase(d, TRUE)

\* C8 (amended): the same, the retry yielding a call only where the macro
\* call stands for an expression or a type expression (not in a pattern, a
\* term or the target of a call) and the macro found is a builtin or has an
\* expression as replacement.
TwoPhaseLookupInCallModes ==
  \A i \in DOMAIN hist.dones :
    LET d == hist.dones[i]
    IN  d.outcome # "Refused" =>
          TwoPhase(d, /\ d.ctx = "node"
                      /\ d.mode \in {"expr", "type"}
                      /\ HasReplacementExpr(SecondLookup(d.n)))

\* A finished run with a call that only the retry resolved, to a user macro,
\* and that yielded a call.
RetryYieldsCall ==
  /\ pc = "finished"
  /\ \E i \in DOMAIN hist.dones :
       hist.dones[i].outcome = "AstArgs" /\ IsAppliedCall(hist.dones[i])

\* The clauses a list of clause elements has to contribute, read from the
\* syntax and the database alone: `names` are the macros being expanded.
RECURSIVE ExpectedClauses(_, _, _)
ExpectedClauses(ctx, elems, names) ==
  IF elems = <<>> THEN <<>>
  ELSE LET e      == Head(elems)
           name   == macro_name(e)
           res    == db_resolve_macro(original_file_id, name)
           wanted == IF ctx = "fclause" THEN "fclauses" ELSE "crclauses"
           here   == IF Ast[e].kind # "macro" THEN <<e>>
                     ELSE IF name \in names \/ res.tag # "User" THEN <<>>
                     ELSE IF Defs[res.def].rkind # wanted THEN <<>>
                     ELSE ExpectedClauses(ctx, Defs[res.def].rclauses, names \cup {name})
       IN  here \o ExpectedClauses(ctx, Tail(elems), names)

\* C9: a clause list is the in-order concatenation of what its elements
\* contribute: an ordinary clause itself, a macro call all clauses of its
\* clause-sequence replacement (spliced recursively), and nothing when the
\* macro is unresolved, refused, builtin, found by the retry only, or has a
\* replacement that is not a clause sequence of the matching kind.
ClausesSplicedInOrder ==
  \A i \in DOMAIN hist.collects :
    LET c == hist.collects[i]
    IN  c.syns = ExpectedClauses(c.ctx, c.elems, c.names)

\* A function whose clause list took clauses from a macro (and from a macro
\* inside that macro) between two ordinary clauses.
ClausesFromNestedMacro ==
  \E i \in DOMAIN hist.collects :
    LET c == hist.collects[i]
    IN  /\ c.ctx = "fclause"
        /\ Len(c.syns) > Len(c.elems)
        /\ Ast[c.elems[1]].kind = "clause"
        /\ Ast[c.elems[Len(c.elems)]].kind = "clause"

(***************************************************************************)
(* Properties of the database.                                             *)
(***************************************************************************)
\* C10: a get of a derived query that was asked before with the same
\* arguments, no input it (transitively) read having been set since, returns
\* the value returned before and runs no query function.
IdempotentCaching ==
  (last.had /\ ~last.touched) => (last.value = last.prev /\ last.ran = {})

\* A repeated get answered from the memo although another input was set in
\* between.
CachedAcrossUnrelatedSet ==
  /\ last.had /\ ~last.touched /\ last.between
  /\ last.ran = {}
(***************************************************************************)
(* C11  Early cutoff: when, since the previous get of a query, no input    *)
(* fact the query function reads itself was set, and every derived query   *)
(* it reads that ran again came out with the value it had, the get does    *)
(* not run the query function and returns the value of the previous get.   *)
(***************************************************************************)
EarlyCutoff ==
  (last.had /\ ~last.direct_touched /\ ~last.sub_changed)
    => (last.key \notin last.ran /\ last.value = last.prev)

\* A derived query that was read ran again after a set_input (same value), and
\* the reader was not run.
CutoffAfterRerun ==
  /\ last.had /\ last.touched /\ ~last.direct_touched
  /\ last.sub_ran /\ ~last.sub_changed
  /\ last.key \notin last.ran

NoAppData(f) == inputs.app_data[inputs.file_source_root[f]] = None
NoPath(f) == \A e \in inputs.source_root[inputs.file_source_root[f]] : e[1] # f

IndexedFiles(p) ==
  LET roots == inputs.project_data[p].source_roots
  IN  { <<e[2].name, e[1]>> :
          e \in { x \in UNION {inputs.source_root[roots[i]] :
                                 i \in {j \in DOMAIN roots : inputs.app_data[roots[j]] # None}} :
                   x[2].ext = Some("erl") } }

MissingMetadataIsAbsent ==
  /\ \A f \in Files :
        /\ NoAppData(f) =>
              /\ file_app_type(inputs, f) = None
              /\ file_app_name(inputs, f) = None
              /\ is_test_suite_or_test_helper(inputs, f) = None
              /\ is_in_otp(inputs, f) = FALSE
        /\ NoPath(f) => is_test_suite_or_test_helper(inputs, f) = None
  /\ \A p \in Projects :
        {<<m[1], m[2]>> : m \in module_index(inputs, p, {}).modules} = IndexedFiles(p)

\* module_index was asked for a project one of whose source roots holds a
\* module but has no app_data, while another root is indexed; a file lives in
\* a root without app_data.
IndexSkipsRootWithoutAppData ==
  /\ last.fresh /\ ~last.cancelled /\ last.key = <<"module_index", "p1">>
  /\ last.value.modules # {}
  /\ \E i \in DOMAIN inputs.project_data["p1"].source_roots :
        LET r == inputs.project_data["p1"].source_roots[i]
        IN  inputs.app_data[r] = None /\ \E e \in inputs.source_root[r] : e[2].ext = Some("erl")
  /\ \E f \in Files : NoAppData(f)

(***************************************************************************)
(* C14  is_generated never panics on a file text, and the boolean it       *)
(* returns is true exactly when "@generated" lies within the first 2001    *)
(* bytes of the text.                                                      *)
(***************************************************************************)
MarkerWithinLimit(text) == text.marker # None /\ text.marker[1] + MarkerLen <= GeneratedLimit

IsGeneratedTotal ==
  /\ ~last.panicked
  /\ (last.fresh /\ ~last.cancelled /\ last.key[1] = "is_generated")
        => (last.value <=> MarkerWithinLimit(inputs.file_text[last.key[2]]))

(***************************************************************************)
(* C15  Transitive invalidity: once check has visited every declaration,   *)
(* each declaration that depends, directly or through other declarations,  *)
(* on an undeclared one or on one whose module has no stub is recorded as  *)
(* invalid and is no longer in the resulting stub.                         *)
(***************************************************************************)
\* The references d reaches in at most n steps.
RECURSIVE Reaches(_, _)
Reaches(S, n) ==
  IF n = 0 THEN S
  ELSE Reaches(S \cup UNION {{stub[d][i] : i \in DOMAIN stub[d]} : d \in S \cap DOMAIN stub}, n - 1)

DependsOnInvalid(d) ==
  \E r \in Reaches({d}, Cardinality(Refs)) : r \notin DOMAIN stub \/ ~StubLoads(r)

CheckDone == stub # <<>> /\ checked = DOMAIN stub

TransitiveInvalidity ==
  CheckDone =>
    \A d \in DOMAIN stub :
      DependsOnInvalid(d) =>
        /\ d \notin stub_result
        /\ \A invs \in Get(invalid_refs, d) : invs # {}

(***************************************************************************)
(* Constant folding and the per-mode shapes.                               *)
(***************************************************************************)
\* The nodes allocated so far in `mode` for a syntax node of `kind`.
AllocsOf(mode, kind) ==
  {i \in DOMAIN hist.allocs :
     /\ hist.allocs[i].mode = mode
     /\ hist.allocs[i].n # 0
     /\ Ast[hist.allocs[i].n].kind = kind}

NodeOf(h) == body[h.mode][h.id]

IsLiteralOf(node, kinds) == node.tag = "Literal" /\ node.lit[1].t \in kinds

\* The bytes a literal element stands for in a binary.
LiteralBytes(lit) ==
  IF lit.t = "String" THEN [j \in DOMAIN lit.s |-> lit.s[j] % 256] ELSE <<lit.i % 256>>

\* Segment j of the binary of allocation h is written without size and
\* without bit types, and its element lowered to a char, integer or string.
PlainSegment(h, j) ==
  LET sn == Ast[h.n].kids[j]
  IN  /\ Ast[sn].kids = <<>>
      /\ Ast[sn].body = <<>>
      /\ IsLiteralOf(body["term"][h.used[j].c[1].elem], {"Char", "Integer", "String"})

\* C16: a binary lowered as a term is the constant Term::Binary exactly when
\* every segment is written without size, unit and type qualifier and has a
\* literal char, integer or string as element; its bytes are then the
\* segments' values in order (modulo 256, one byte per character of a
\* string); otherwise the whole binary is Term::Missing.
BinaryFolding ==
  \A i \in AllocsOf("term", "binary") :
    LET h    == hist.allocs[i]
        segs == Ast[h.n].kids
    IN  IF \A j \in DOMAIN segs : PlainSegment(h, j)
          THEN /\ NodeOf(h).tag = "Binary"
               /\ NodeOf(h).bytes =
                    Flatten([j \in DOMAIN segs |->
                               LiteralBytes(body["term"][h.used[j].c[1].elem].lit[1])])
          ELSE NodeOf(h).tag = "Missing"

\* C17: as a term, unary plus or minus on a literal numeral is the signed
\* literal, and on any other operand it is Term::Missing.
UnaryFolding ==
  \A i \in AllocsOf("term", "unary") :
    LET h       == hist.allocs[i]
        op      == Ast[h.n].name
        operand == body["term"][h.used[1].v]
    IN  op \in {"+", "-"} =>
          IF IsLiteralOf(operand, {"Integer"})
            THEN /\ NodeOf(h).tag = "Literal"
                 /\ NodeOf(h).lit[1] =
                      LitInteger(IF op = "+" THEN operand.lit[1].i ELSE 0 - operand.lit[1].i)
            ELSE NodeOf(h).tag = "Missing"

\* The (key, value) pairs of the fields of map allocation h written with an
\* operator of ops, in order.
FieldsWritten(h, ops) ==
  LET fs   == Ast[h.n].kids
      kept == SelectSeq([i \in 1..Len(fs) |-> i], LAMBDA i : Ast[fs[i]].name \in ops)
  IN  [j \in 1..Len(kept) |-> <<h.used[2 * kept[j] - 1].v, h.used[2 * kept[j]].v>>]

\* Key and value of every field of map allocation h were lowered: the key as
\* an expression, the value in the map's mode.
FieldsLowered(h) ==
  /\ Len(h.used) = 2 * Len(Ast[h.n].kids)
  /\ \A j \in DOMAIN h.used :
       /\ h.used[j].t = "id"
       /\ h.used[j].v \in DOMAIN body[IF j % 2 = 1 THEN "expr" ELSE h.mode]

MapKeeps(mode, ops) ==
  \A i \in AllocsOf(mode, "map") :
    LET h == hist.allocs[i]
    IN  /\ NodeOf(h).tag = "Map"
        /\ NodeOf(h).fields = FieldsWritten(h, ops)
        /\ FieldsLowered(h)

\* C18 (as stated): a map literal keeps, as a pattern, the fields written
\* with := and, as an expression, the fields written with := or =>; key and
\* value of every field are lowered in both.
MapFieldsPerMode == MapKeeps("pat", {":="}) /\ MapKeeps("expr", {":=", "=>"})

\* C18 (amended): a map literal keeps, as a pattern, the fields written with
\* := and, as an expression, the fields written with =>; key and value of
\* every field are lowered in both.
MapFieldsByOperator == MapKeeps("pat", {":="}) /\ MapKeeps("expr", {"=>"})

\* A map expression written with both operators has been lowered, and a map
\* pattern too.
MapWithBothOperators ==
  \E i \in AllocsOf("expr", "map"), j \in AllocsOf("pat", "map") :
    /\ {Ast[f].name : f \in {Ast[hist.allocs[i].n].kids[x] : x \in DOMAIN Ast[hist.allocs[i].n].kids}}
         = {":=", "=>"}
    /\ Len(NodeOf(hist.allocs[i]).fields) = 1
    /\ {Ast[f].name : f \in {Ast[hist.allocs[j].n].kids[x] : x \in DOMAIN Ast[hist.allocs[j].n].kids}}
         = {":=", "=>"}
    /\ Len(NodeOf(hist.allocs[j]).fields) = 1

\* The tuples written {a, B}.
IsAB(n) ==
  /\ Ast[n].kind = "tuple"
  /\ Len(Ast[n].kids) = 2
  /\ Ast[Ast[n].kids[1]].kind = "atom" /\ Ast[Ast[n].kids[1]].name = "a"
  /\ Ast[Ast[n].kids[2]].kind = "var" /\ Ast[Ast[n].kids[2]].name = "B"

\* {a, B} outside every expansion, as a pattern or an expression: the Tuple of
\* the atom a and the variable B.
TupleOfAtomAndVar(mode) ==
  \A i \in AllocsOf(mode, "tuple") :
    LET h == hist.allocs[i]
    IN  (IsAB(h.n) /\ h.frame = 0) =>
          /\ NodeOf(h).tag = "Tuple"
          /\ Len(NodeOf(h).ids) = 2
          /\ body[mode][NodeOf(h).ids[1]].lit = Some(LitAtom("a"))
          /\ body[mode][NodeOf(h).ids[2]].tag = "Var"
          /\ body[mode][NodeOf(h).ids[2]].var = "B"

\* {a, B} as a term: the constant Tuple when B lowered to a literal, the
\* Missing term otherwise.
TupleTermConstantOrMissing ==
  \A i \in AllocsOf("term", "tuple") :
    LET h == hist.allocs[i]
        b == body["term"][h.used[2].v]
    IN  IsAB(h.n) =>
          IF b.tag = "Literal"
            THEN /\ NodeOf(h).tag = "Tuple"
                 /\ NodeOf(h).ids = <<h.used[1].v, h.used[2].v>>
                 /\ body["term"][h.used[1].v].lit = Some(LitAtom("a"))
            ELSE NodeOf(h).tag = "Missing"

\* C19: {a, B} is, as a pattern, the Tuple of the atom a and the variable B;
\* as an expression, the Tuple of the atom a and the variable B; as a term,
\* the constant Tuple only when B folds to a literal, and the Missing term
\* otherwise.
FourModeConsistency ==
  /\ TupleOfAtomAndVar("pat")
  /\ TupleOfAtomAndVar("expr")
  /\ TupleTermConstantOrMissing

\* The pipe elements of list allocation h, as positions in its element list,
\* and where the values of element p start in h.used.
Pipes(h) == {p \in DOMAIN Ast[h.n].kids : Ast[Ast[h.n].kids[p]].kind = "pipe"}
ValueAt(h, p) == p + Cardinality({q \in Pipes(h) : q < p})
Lhs(h, p) == h.used[ValueAt(h, p)]
Rhs(h, p) == h.used[ValueAt(h, p) + 1]
IdIfAny(val) == IF val.t = "id" THEN <<val.v>> ELSE <<>>
OptId(val) == IF val.t = "id" THEN Some(val.v) ELSE None

\* Every child lowered for the list is in the node once, among the elements
\* or as the tail.
EachChildOnce(h) ==
  LET all == NodeOf(h).ids \o NodeOf(h).tail
  IN  /\ \A x, y \in DOMAIN all : all[x] = all[y] => x = y
      /\ {all[x] : x \in DOMAIN all} = {h.used[j].v : j \in {x \in DOMAIN h.used : h.used[x].t = "id"}}

BuiltInValue(name) ==
  CASE name = "LINE" -> Some(LitInteger(0))
    [] name = "OTP_RELEASE" -> Some(LitInteger(2000))
    [] name = "MODULE" ->
         IF db.module = None THEN None ELSE Some(LitAtom(db.module[1]))
    [] name = "MODULE_STRING" ->
         IF db.module = None THEN None ELSE Some(LitString(<<db.module[1]>>))
    [] name = "FILE" ->
         IF db.module = None THEN None ELSE Some(LitString(<<db.module[1], ".erl">>))
    [] name = "FUNCTION_NAME" ->
         IF function_info = None THEN None ELSE Some(LitAtom(function_info[1].name))
    [] name = "FUNCTION_ARITY" ->
         IF function_info = None THEN None ELSE Some(LitInteger(function_info[1].arity))
    [] OTHER -> Some(LitAtom("ELP"))

\* C21: wherever its call stands and at whatever depth of expansion, a
\* builtin lowers to the literal of its value: 0 for LINE, 2000 for
\* OTP_RELEASE, the module attribute of the original file for MODULE,
\* MODULE_STRING and FILE, the function info for FUNCTION_NAME and
\* FUNCTION_ARITY; without a value (no module attribute, no function info) it
\* lowers to a Missing node.
BuiltInValues ==
  \A i \in DOMAIN hist.dones :
    LET d     == hist.dones[i]
        value == BuiltInValue(Ast[d.n].name)
    IN  /\ d.outcome = "BuiltIn" =>
             IF value = None
               THEN /\ d.id = 0
                    /\ pc = "finished" =>
                         \E j \in DOMAIN hist.allocs :
                           /\ hist.allocs[j].n = d.n
                           /\ hist.allocs[j].mode = d.mode
                           /\ hist.allocs[j].file = d.file
                           /\ NodeOf(hist.allocs[j]).tag = "Missing"
               ELSE /\ d.id # 0
                    /\ body[d.mode][d.id].tag = "Literal"
                    /\ body[d.mode][d.id].lit = value
        /\ (d.outcome = "BuiltInArgs" /\ d.id # 0) =>
             LET target == body[d.mode][body[d.mode][d.id].head]
             IN  IF value = None THEN target.tag = "Missing"
                 ELSE target.tag = "Literal" /\ target.lit = value

\* A Body is finished in which ?MODULE, written in a macro of the header and
\* reached through two expansions, took the module attribute of the original
\* file, and in which ?FUNCTION_NAME had no value.
BuiltInInsideForeignMacro ==
  /\ pc = "finished"
  /\ db.module # None
  /\ \E i, j \in DOMAIN hist.dones :
       /\ hist.dones[i].outcome = "BuiltIn"
       /\ Ast[hist.dones[i].n].name = "MODULE"
       /\ hist.dones[i].file = "h.hrl"
       /\ body[hist.dones[i].mode][hist.dones[i].id].lit = Some(LitAtom(db.module[1]))
       /\ hist.dones[j].outcome = "BuiltIn"
       /\ Ast[hist.dones[j].n].name = "FUNCTION_NAME"
       /\ hist.dones[j].id = 0

(***************************************************************************)
(* Arenas.                                                                 *)
(***************************************************************************)
\* The arena each id stored in a node of an arena points into: a case clause
\* holds patterns and expressions; the arguments of a MacroCall node, the key
\* of a map pattern and the size of a segment of a binary pattern are
\* expressions; everything else stays in the arena of the node.
IdsStored(mode, node) ==
  LET In(arena, ids) == {<<arena, ids[i]>> : i \in DOMAIN ids}
      keys == IF mode = "pat" THEN "expr" ELSE mode
  IN  (IF node.head = 0 THEN {} ELSE {<<mode, node.head>>})
        \cup In(IF node.tag = "MacroCall" THEN "expr" ELSE mode, node.ids)
        \cup In(mode, node.tail)
        \cup UNION {In("pat", node.clauses[i].pats) \cup In("expr", node.clauses[i].exprs)
                      : i \in DOMAIN node.clauses}
        \cup UNION {{<<keys, node.fields[i][1]>>,
                     <<mode, node.fields[i][Len(node.fields[i])]>>}
                      : i \in DOMAIN node.fields}
        \cup UNION {{<<mode, node.segs[i].elem>>} \cup In(keys, node.segs[i].size)
                      : i \in DOMAIN node.segs}

\* C22: the four arenas only grow: a step leaves an arena as it is or puts
\* one node after the nodes it holds; the ids the allocations returned are
\* 1, 2, 3, .. in each arena, one per node; and every id stored in a node is
\* the id of a node of this Body that was allocated before it.
ArenasInsertOnly ==
  /\ [][\A mode \in Modes :
          \/ body'[mode] = body[mode]
          \/ /\ Len(body'[mode]) = Len(body[mode]) + 1
             /\ SubSeq(body'[mode], 1, Len(body[mode])) = body[mode]]_vars
  /\ [](/\ \A mode \in Modes :
             LET mine == SelectSeq(hist.allocs, LAMBDA h : h.mode = mode)
             IN  /\ Len(mine) = Len(body[mode])
                 /\ \A i \in DOMAIN mine : mine[i].id = i
         /\ \A j \in DOMAIN hist.allocs :
              \A ref \in IdsStored(hist.allocs[j].mode, NodeOf(hist.allocs[j])) :
                \E i \in 1..(j - 1) :
                  /\ hist.allocs[i].mode = ref[1]
                  /\ hist.allocs[i].id = ref[2])

\* A Body is finished whose pattern arena holds a map with a key in the
\* expression arena and whose expression arena holds a map of its own.
ArenasReferEachOther ==
  /\ pc = "finished"
  /\ \E i \in DOMAIN body["pat"] :
       /\ body["pat"][i].tag = "Map"
       /\ body["pat"][i].fields # <<>>
  /\ \E i \in DOMAIN body["expr"] :
       /\ body["expr"][i].tag = "Map"
       /\ body["expr"][i].fields # <<>>

(***************************************************************************)
(* Re-entrant expansion through the retry.                                 *)
(***************************************************************************)
\* C23: at every point of lowering no two frames of the active chain belong
\* to the same macro definition (a definition is known by the name and arity
\* its frame was entered under: the retry enters under the name without
\* arity), also when the later frame was entered through the retry without
\* arity.
NoDefinitionTwiceOnChain ==
  pc = "lowering" =>
    \A i, j \in DOMAIN active_chain :
      i # j => active_chain[i].name # active_chain[j].name

(***************************************************************************)
(* Arguments of a call resolved through the retry.                         *)
(***************************************************************************)
\* Node n is written as an argument of macro call c.
IsArgumentOf(n, c) ==
  /\ Ast[c].kind = "macro"
  /\ \E i \in DOMAIN Ast[c].kids : Ast[c].kids[i] = n

\* Syntax node n lies in the syntax tree under root.
RECURSIVE Under(_, _)
Under(root, n) ==
  \/ root = n
  \/ root # 0 /\ \E k \in {Ast[root].head} \cup {Ast[root].kids[i] : i \in DOMAIN Ast[root].kids}
                            \cup {Ast[root].body[i] : i \in DOMAIN Ast[root].body} :
                   k # 0 /\ Under(k, n)

\* C24: the arguments written at a macro call site are lowered in the
\* caller's frame, however the macro was resolved: a node allocated for an
\* argument carries the file id of the file the call is written in and is
\* made while the frame that was current at the call is current again (the
\* called macro's frame is not), and no Var node is made for an argument that
\* names a parameter of the macro in whose replacement the call is written.
ArgumentsInCallersFrame ==
  \A j \in DOMAIN hist.allocs :
    LET h == hist.allocs[j]
    IN  \A c \in DOMAIN Ast :
          (h.n # 0 /\ IsArgumentOf(h.n, c)) =>
            /\ h.file = Ast[c].file
            /\ \E i \in DOMAIN hist.resolves :
                 hist.resolves[i].n = c /\ hist.resolves[i].frame = h.frame
            /\ ~ \E d \in db.defs :
                   /\ Defs[d].rkind = "expr"
                   /\ Under(Defs[d].rnode, c)
                   /\ Ast[h.n].kind = "var"
                   /\ Ast[h.n].name \in {Defs[d].params[i] : i \in DOMAIN Defs[d].params}

(***************************************************************************)
(* Refused and unresolved calls.                                           *)
(***************************************************************************)
NoExpansion == {"Refused", "Unresolved"}

\* A step in which resolve_macro refused a call or found no definition
\* leaves the frames, the current-frame index and the macro-resolution map
\* as they were.
RefusalLeavesState ==
  (/\ Len(hist'.resolves) = Len(hist.resolves) + 1
   /\ Last(hist'.resolves).outcome \in NoExpansion)
    => /\ macro_stack' = macro_stack
       /\ macro_stack_id' = macro_stack_id
       /\ source_map'.macro_map = source_map.macro_map
       /\ body' = body

\* The Missing nodes allocated with call as their source after its arguments
\* (expression and guard of each) were lowered in the frame the node is made
\* in, or in the parent frame for an argument that is a substituted parameter.
FallbackNodes(call) ==
  {j \in DOMAIN hist.allocs :
     LET h == hist.allocs[j]
     IN  /\ h.n = call
         /\ NodeOf(h).tag = "Missing"
         /\ Len(h.used) = 2 * Len(Ast[call].kids)
         /\ \A u \in DOMAIN h.used :
              \E i \in 1..(j - 1) :
                /\ hist.allocs[i].mode = h.mode
                /\ hist.allocs[i].id = h.used[u].v
                /\ \/ hist.allocs[i].frame = h.frame
                   \/ hist.allocs[i].scope = "restore_var"}

\* In a finished Body every call, standing in one of the positions ctxs, that
\* was refused or unresolved has a Missing node of its own, made in the frame
\* and recorded with the file id that were current at the call.
FallsBackIn(ctxs) ==
  pc = "finished" =>
    \A i \in DOMAIN hist.resolves :
      LET r == hist.resolves[i]
      IN  (r.outcome \in NoExpansion /\ r.ctx \in ctxs) =>
            /\ \E j \in FallbackNodes(r.n) :
                 /\ hist.allocs[j].frame = r.frame
                 /\ hist.allocs[j].mode = r.mode
            /\ Cardinality({j \in DOMAIN hist.allocs :
                              hist.allocs[j].n = r.n /\ NodeOf(hist.allocs[j]).tag = "Missing"})
                 = Cardinality({k \in DOMAIN hist.dones :
                                  hist.dones[k].n = r.n /\ hist.dones[k].id = 0})

\* C25 as stated: a refused or unresolved call leaves the lowering state
\* untouched, and whatever position the call stands in, its caller lowers
\* every argument in the current frame and allocates one Missing node
\* recorded against the call.
UnresolvedCallFallsBack ==
  /\ [][RefusalLeavesState]_vars
  /\ [](FallsBackIn({hist.resolves[i].ctx : i \in DOMAIN hist.resolves}))

\* C25, amended: the state is left untouched in every position; the
\* arguments are lowered and the Missing node is allocated where the call
\* stands for a node (an expression, a pattern, a type, a term or the target
\* of a call).
UnresolvedNodeFallsBack ==
  /\ [][RefusalLeavesState]_vars
  /\ [](FallsBackIn({"node", "target"}))

\* A Body is finished in which a refused call and an unresolved call, both
\* with arguments and both written in a macro replacement, each fell back to
\* a Missing node.
RefusedAndUnresolvedFellBack ==
  /\ pc = "finished"
  /\ \E i, k \in DOMAIN hist.resolves :
       /\ hist.resolves[i].outcome = "Refused"
       /\ hist.resolves[k].outcome = "Unresolved"
       /\ \A x \in {i, k} :
            /\ hist.resolves[x].ctx = "node"
            /\ hist.resolves[x].frame # 0
            /\ Ast[hist.resolves[x].n].kids # <<>>
            /\ FallbackNodes(hist.resolves[x].n) # {}

(***************************************************************************)
(* Forward entries of the source map.                                      *)
(***************************************************************************)
\* The keys of the forward map of an arena that lead to node id.
ForwardKeys(mode, id) == {p[1] : p \in {q \in source_map.map[mode] : q[2] = id}}

\* C26: in a finished SourceMap a node lowered from real source (allocated
\* for a piece of syntax outside every macro replacement and substituted
\* argument) is reached from at most one key of the forward map of its
\* arena, in each of the four modes, parenthesised expressions included.
OneForwardEntry ==
  pc = "finished" =>
    \A j \in DOMAIN hist.allocs :
      LET h == hist.allocs[j]
      IN  (h.n # 0 /\ h.site = <<>> /\ h.scope = "unit") =>
            Cardinality(ForwardKeys(h.mode, h.id)) <= 1

(***************************************************************************)
(* Frame bookkeeping.                                                      *)
(***************************************************************************)
\* The index reached from frame id by following at most fuel parent indices.
RECURSIVE AncestorOf(_, _)
AncestorOf(id, fuel) ==
  IF id = 0 \/ fuel = 0 THEN id ELSE AncestorOf(macro_stack[id + 1].parent_id, fuel - 1)

\* C27: at every point of the construction of a Body the sentinel is the
\* first frame, the current-frame index is the index of a frame, the parent
\* index of every other frame is smaller than its own index, the parents of
\* the current frame lead to the sentinel, and a frame is popped when it is
\* the current frame and the last of the array, also when it was pushed
\* while the index was rewound to an ancestor.
FramesWellFormed ==
  pc = "lowering" =>
    /\ macro_stack # <<>>
    /\ macro_stack[1] = Sentinel(original_file_id)
    /\ macro_stack_id \in 0..(Len(macro_stack) - 1)
    /\ \A i \in 1..(Len(macro_stack) - 1) : macro_stack[i + 1].parent_id < i
    /\ AncestorOf(macro_stack_id, Len(macro_stack)) = 0
    /\ Running("exit_macro") =>
         /\ Len(macro_stack) >= 2
         /\ macro_stack_id = Len(macro_stack) - 1
    /\ Running("finish") => Len(macro_stack) = 1

\* A frame is about to be popped that was pushed while the index was rewound
\* to an ancestor: its parent is not the frame before it.
PopOfFramePushedWhileRewound ==
  /\ Running("exit_macro")
  /\ Len(macro_stack) >= 3
  /\ Last(macro_stack).parent_id < Len(macro_stack) - 2

(***************************************************************************)
(* The result of check.                                                    *)
(***************************************************************************)
\* The references of a type that the checker has memoised as invalid.
InvalidIn(ty) == {ty[i] : i \in {j \in DOMAIN ty : show_invalids(Checker, ty[j]) # {}}}

\* The invalid references of a declaration of the stub: the memo of a type,
\* opaque or record; the invalid references of the types of a spec.
InvalidReferences(d) ==
  CASE d \in Specs           -> InvalidIn(stub[d])
    [] d \in OverloadedSpecs -> UNION {InvalidIn(stub[d][i]) : i \in DOMAIN stub[d]}
    [] OTHER                 -> show_invalids(Checker, IdOf(d))

\* The invalid form a removed declaration leaves.
FormOf(d) ==
  CASE d \in RecDecls -> "InvalidRecDecl"
    [] d \in Specs \cup OverloadedSpecs -> "InvalidFunSpec"
    [] OTHER -> "InvalidTypeDecl"

ValidityTerminates ==
  /\ \A i, j \in DOMAIN expanded : i # j => expanded[i] # expanded[j]
  /\ Len(expanded) <= Cardinality(Refs)
  /\ \A i \in DOMAIN expanded : Cardinality(Get(invalid_refs, expanded[i])) = 1
  /\ \A d \in checked :
       ~DependsOnInvalid(d) => /\ d \in stub_result
                               /\ show_invalids(Checker, d) = {}

\* Every declaration is checked and kept although t1 and t2 refer to each
\* other and r3 refers to itself and to t1.
RecursiveDeclarationsValid ==
  /\ CheckDone
  /\ stub["t1"] = <<"t2">>
  /\ stub["t2"] = <<"t1", "r3">>
  /\ stub["r3"] = <<"t1", "r3">>
  /\ stub_result = DOMAIN stub

(***************************************************************************)
(* The in-progress set.                                                    *)
(***************************************************************************)
\* C30: whenever is_valid has returned, with a verdict or with an error, the
\* references it put in progress are out of the in-progress set again: after
\* each step of check, and after check has returned Ok or Err, the set is
\* empty, and every reference that was expanded has a memoised verdict.
InProgressEmptied ==
  /\ in_progress = {}
  /\ \A i \in DOMAIN expanded : Get(invalid_refs, expanded[i]) # {}

====
